---- MODULE Spec2Model ----
(***************************************************************************)
(* Model of the AI request pipeline of the Admission Note Builder:         *)
(* parseWithAI (src/src/api.ts), the failure classifier and backoff        *)
(* calculator (src/src/errors.ts) and the JSON extraction / repair         *)
(* routine (utils.ts).                                                     *)
(*                                                                         *)
(* Text is modelled as a sequence of one-character strings, so that        *)
(* trimming, splitting, scanning and parsing are computed character by     *)
(* character as the code does.                                             *)
(***************************************************************************)
EXTENDS Integers, Sequences, FiniteSets, TLC

----------------------------------------------------------------------------
(* String primitives of the JavaScript runtime used by the code.           *)

\* Characters String.prototype.trim() removes (those of the model's alphabet).
TrimWs == {" ", "\t", "\n", "\r", "\f"}

\* Characters JSON.parse accepts as insignificant whitespace.
JsonWs == {" ", "\t", "\n", "\r"}

Digits == {"0", "1", "2", "3", "4", "5", "6", "7", "8", "9"}

HexDigits == Digits \cup {"a", "b", "c", "d", "e", "f", "A", "B", "C", "D", "E", "F"}

RECURSIVE TrimStart(_)
TrimStart(s) ==
    IF s # <<>> /\ Head(s) \in TrimWs THEN TrimStart(Tail(s)) ELSE s

RECURSIVE TrimEnd(_)
TrimEnd(s) ==
    IF s # <<>> /\ s[Len(s)] \in TrimWs THEN TrimEnd(SubSeq(s, 1, Len(s) - 1)) ELSE s

\* String.prototype.trim
Trim(s) == TrimEnd(TrimStart(s))

\* String.prototype.startsWith
StartsWith(s, p) == Len(s) >= Len(p) /\ SubSeq(s, 1, Len(p)) = p

\* String.prototype.endsWith
EndsWith(s, p) == Len(s) >= Len(p) /\ SubSeq(s, Len(s) - Len(p) + 1, Len(s)) = p

\* Positions (1-based) at which p occurs in s.
Occurrences(s, p) ==
    {i \in 1..(Len(s) - Len(p) + 1) : SubSeq(s, i, i + Len(p) - 1) = p}

Min(S) == CHOOSE x \in S : \A y \in S : x <= y

Max(S) == CHOOSE x \in S : \A y \in S : x >= y

\* String.prototype.indexOf, 1-based; 0 when p does not occur (JS: -1).
IndexOf(s, p) == IF Occurrences(s, p) = {} THEN 0 ELSE Min(Occurrences(s, p))

\* String.prototype.lastIndexOf, 1-based; 0 when p does not occur (JS: -1).
LastIndexOf(s, p) == IF Occurrences(s, p) = {} THEN 0 ELSE Max(Occurrences(s, p))

\* String.prototype.includes
Includes(s, p) == Occurrences(s, p) # {}

\* String.prototype.split with a non-empty separator: the pieces between
\* successive non-overlapping occurrences of sep, scanning left to right.
RECURSIVE Split(_, _)
Split(s, sep) ==
    IF ~Includes(s, sep) THEN <<s>>
    ELSE <<SubSeq(s, 1, IndexOf(s, sep) - 1)>>
         \o Split(SubSeq(s, IndexOf(s, sep) + Len(sep), Len(s)), sep)

----------------------------------------------------------------------------
(* JSON.parse, as a recursive-descent recogniser that also builds the      *)
(* value.  Values are tagged by their field name: [lit |-> "null"],        *)
(* [num |-> lexeme], [str |-> chars], [arr |-> values],                    *)
(* [obj |-> <<key, value>> pairs in insertion order].                      *)

ParseFail == [ok |-> FALSE, pos |-> 0, val |-> [lit |-> "undefined"]]

ParseOk(p, v) == [ok |-> TRUE, pos |-> p, val |-> v]

RECURSIVE SkipWs(_, _)
SkipWs(s, i) ==
    IF i <= Len(s) /\ s[i] \in JsonWs THEN SkipWs(s, i + 1) ELSE i

\* First position >= i that does not hold a digit.
RECURSIVE SkipDigits(_, _)
SkipDigits(s, i) ==
    IF i <= Len(s) /\ s[i] \in Digits THEN SkipDigits(s, i + 1) ELSE i

\* The character an escape sequence \c denotes; backspace has no TLA+
\* literal and is written as the token "<BS>".
Unescape(c) ==
    CASE c = "n" -> "\n"
      [] c = "t" -> "\t"
      [] c = "r" -> "\r"
      [] c = "f" -> "\f"
      [] c = "b" -> "<BS>"
      [] OTHER -> c

\* s[i] is the opening quote.
RECURSIVE ParseStringBody(_, _, _)
ParseStringBody(s, j, acc) ==
    IF j > Len(s) THEN ParseFail
    ELSE IF s[j] = "\"" THEN ParseOk(j + 1, [str |-> acc])
    ELSE IF s[j] = "\\" THEN
        IF j + 1 > Len(s) THEN ParseFail
        ELSE IF s[j + 1] \in {"\"", "\\", "/", "b", "f", "n", "r", "t"}
             THEN ParseStringBody(s, j + 2, Append(acc, Unescape(s[j + 1])))
        ELSE IF s[j + 1] = "u" /\ j + 5 <= Len(s)
                /\ \A k \in (j + 2)..(j + 5) : s[k] \in HexDigits
             THEN ParseStringBody(s, j + 6,
                      Append(acc, "\\u" \o s[j + 2] \o s[j + 3] \o s[j + 4] \o s[j + 5]))
        ELSE ParseFail
    ELSE IF s[j] \in {"\n", "\t", "\r", "\f"} THEN ParseFail
    ELSE ParseStringBody(s, j + 1, Append(acc, s[j]))

ParseString(s, i) == ParseStringBody(s, i + 1, <<>>)

\* Number grammar: -? (0 | [1-9][0-9]*) (. [0-9]+)? ([eE] [+-]? [0-9]+)?
\* The value of a number is kept as its lexeme SubSeq(s, i, end - 1).
NumberOk(s, i, end) == ParseOk(end, [num |-> SubSeq(s, i, end - 1)])

\* e is the position after the exponent marker and sign; d after its digits.
NumberExpDigits(s, i, e, d) == IF d > e THEN NumberOk(s, i, d) ELSE ParseFail

\* c is the position after the fraction.
NumberExp(s, i, c) ==
    IF c <= Len(s) /\ s[c] \in {"e", "E"}
    THEN IF c + 1 <= Len(s) /\ s[c + 1] \in {"+", "-"}
         THEN NumberExpDigits(s, i, c + 2, SkipDigits(s, c + 2))
         ELSE NumberExpDigits(s, i, c + 1, SkipDigits(s, c + 1))
    ELSE NumberOk(s, i, c)

\* b is the position after the integer part; c after the fraction digits.
NumberFracDigits(s, i, b, c) == IF c > b + 1 THEN NumberExp(s, i, c) ELSE ParseFail

NumberFrac(s, i, b) ==
    IF b <= Len(s) /\ s[b] = "."
    THEN NumberFracDigits(s, i, b, SkipDigits(s, b + 1))
    ELSE NumberExp(s, i, b)

\* a is the position after the sign; b after the integer part.
NumberIntEnd(s, i, a, b) == IF b > a THEN NumberFrac(s, i, b) ELSE ParseFail

NumberInt(s, i, a) ==
    IF a <= Len(s) /\ s[a] = "0" THEN NumberFrac(s, i, a + 1)
    ELSE NumberIntEnd(s, i, a, SkipDigits(s, a))

ParseNumber(s, i) == NumberInt(s, i, IF s[i] = "-" THEN i + 1 ELSE i)

ParseLiteral(s, i, word, name) ==
    IF i + Len(word) - 1 <= Len(s) /\ SubSeq(s, i, i + Len(word) - 1) = word
    THEN ParseOk(i + Len(word), [lit |-> name])
    ELSE ParseFail

\* Defining a property that already exists replaces its value in place.
ObjPut(members, key, val) ==
    IF \E k \in 1..Len(members) : members[k][1] = key
    THEN [k \in 1..Len(members) |->
             IF members[k][1] = key THEN <<key, val>> ELSE members[k]]
    ELSE Append(members, <<key, val>>)

RECURSIVE ParseValue(_, _)
RECURSIVE ParseElements(_, _, _)
RECURSIVE ParseMembers(_, _, _)

\* j is the first non-blank position after an element.
ElementSep(s, j, acc) ==
    IF j > Len(s) THEN ParseFail
    ELSE IF s[j] = "," THEN ParseElements(s, j + 1, acc)
    ELSE IF s[j] = "]" THEN ParseOk(j + 1, [arr |-> acc])
    ELSE ParseFail

\* r is the parse of an element.
ElementNext(s, r, acc) ==
    IF ~r.ok THEN ParseFail ELSE ElementSep(s, SkipWs(s, r.pos), Append(acc, r.val))

ParseElements(s, i, acc) == ElementNext(s, ParseValue(s, i), acc)

\* j is the first non-blank position after a member.
MemberSep(s, j, acc) ==
    IF j > Len(s) THEN ParseFail
    ELSE IF s[j] = "," THEN ParseMembers(s, j + 1, acc)
    ELSE IF s[j] = "}" THEN ParseOk(j + 1, [obj |-> acc])
    ELSE ParseFail

\* r is the parse of a member's value.
MemberNext(s, key, r, acc) ==
    IF ~r.ok THEN ParseFail ELSE MemberSep(s, SkipWs(s, r.pos), ObjPut(acc, key, r.val))

\* c is the first non-blank position after a member's key.
MemberColon(s, key, c, acc) ==
    IF c > Len(s) THEN ParseFail
    ELSE IF s[c] # ":" THEN ParseFail
    ELSE MemberNext(s, key, ParseValue(s, c + 1), acc)

\* k is the parse of a member's key.
MemberKey(s, k, acc) ==
    IF ~k.ok THEN ParseFail ELSE MemberColon(s, k.val.str, SkipWs(s, k.pos), acc)

\* i is the first non-blank position of a member.
MemberAt(s, i, acc) ==
    IF i <= Len(s) /\ s[i] = "\"" THEN MemberKey(s, ParseString(s, i), acc) ELSE ParseFail

ParseMembers(s, i0, acc) == MemberAt(s, SkipWs(s, i0), acc)

\* j is the first non-blank position after an opening brace.
ObjectAt(s, j) ==
    IF j <= Len(s) /\ s[j] = "}" THEN ParseOk(j + 1, [obj |-> <<>>])
    ELSE ParseMembers(s, j, <<>>)

\* j is the first non-blank position after an opening bracket.
ArrayAt(s, j) ==
    IF j <= Len(s) /\ s[j] = "]" THEN ParseOk(j + 1, [arr |-> <<>>])
    ELSE ParseElements(s, j, <<>>)

\* i is the first non-blank position of a value.
ValueAt(s, i) ==
    IF i > Len(s) THEN ParseFail
    ELSE IF s[i] = "{" THEN ObjectAt(s, SkipWs(s, i + 1))
    ELSE IF s[i] = "[" THEN ArrayAt(s, SkipWs(s, i + 1))
    ELSE IF s[i] = "\"" THEN ParseString(s, i)
    ELSE IF s[i] \in Digits \cup {"-"} THEN ParseNumber(s, i)
    ELSE IF s[i] = "t" THEN ParseLiteral(s, i, <<"t", "r", "u", "e">>, "true")
    ELSE IF s[i] = "f" THEN ParseLiteral(s, i, <<"f", "a", "l", "s", "e">>, "false")
    ELSE IF s[i] = "n" THEN ParseLiteral(s, i, <<"n", "u", "l", "l">>, "null")
    ELSE ParseFail

ParseValue(s, i0) == ValueAt(s, SkipWs(s, i0))

\* r is the parse of the top-level value: only blanks may follow it.
WholeText(s, r) == IF r.ok /\ SkipWs(s, r.pos) = Len(s) + 1 THEN r ELSE ParseFail

\* JSON.parse(s): ok is FALSE where JSON.parse throws a SyntaxError.
JsonParse(s) == WholeText(s, ParseValue(s, 1))

----------------------------------------------------------------------------
(* JSON extraction and truncation repair (utils.ts).                       *)

isValidJson(str) == JsonParse(str).ok

\* One left-to-right scan of repairTruncatedJson: net open braces and
\* brackets outside strings, and whether the scan ends inside a string.
RECURSIVE ScanFrom(_, _, _)
ScanFrom(s, i, st) ==
    IF i > Len(s) THEN st
    ELSE LET c == s[i]
         IN  IF st.escapeNext THEN ScanFrom(s, i + 1, [st EXCEPT !.escapeNext = FALSE])
             ELSE IF c = "\\" THEN ScanFrom(s, i + 1, [st EXCEPT !.escapeNext = TRUE])
             ELSE IF c = "\"" THEN ScanFrom(s, i + 1, [st EXCEPT !.inString = ~st.inString])
             ELSE IF st.inString THEN ScanFrom(s, i + 1, st)
             ELSE IF c = "{" THEN ScanFrom(s, i + 1, [st EXCEPT !.braceCount = @ + 1])
             ELSE IF c = "}" THEN ScanFrom(s, i + 1, [st EXCEPT !.braceCount = @ - 1])
             ELSE IF c = "[" THEN ScanFrom(s, i + 1, [st EXCEPT !.bracketCount = @ + 1])
             ELSE IF c = "]" THEN ScanFrom(s, i + 1, [st EXCEPT !.bracketCount = @ - 1])
             ELSE ScanFrom(s, i + 1, st)

Scan(s) ==
    ScanFrom(s, 1, [braceCount |-> 0, bracketCount |-> 0,
                    inString |-> FALSE, escapeNext |-> FALSE])

\* n copies of the character c.
Repeat(c, n) == [k \in 1..n |-> c]

\* Variant: only a quote that follows a colon is taken for a cut-off value.
ReplaceOrCut_ColonOnly(jsonStr, lastQuote, beforeQuote) ==
    IF EndsWith(beforeQuote, <<":">>)
    THEN SubSeq(jsonStr, 1, lastQuote - 1) \o <<"n", "u", "l", "l">>
    ELSE SubSeq(jsonStr, 1, lastQuote)

\* beforeQuote is the trimmed text in front of the last quote.
ReplaceOrCut(jsonStr, lastQuote, beforeQuote) ==
    IF \/ EndsWith(beforeQuote, <<":">>)
       \/ EndsWith(beforeQuote, <<",">>)
       \/ EndsWith(beforeQuote, <<"[">>)
    THEN SubSeq(jsonStr, 1, lastQuote - 1) \o <<"n", "u", "l", "l">>
    ELSE SubSeq(jsonStr, 1, lastQuote)

\* lastQuote is the 1-based position of the last quote (JS: lastQuote > 0).
FixAtQuote(jsonStr, lastQuote) ==
    IF lastQuote > 1
    THEN ReplaceOrCut(jsonStr, lastQuote, Trim(SubSeq(jsonStr, 1, lastQuote - 1)))
    ELSE jsonStr

\* The text after the unterminated-string fix of repairTruncatedJson.
StringFix(jsonStr) ==
    IF Scan(jsonStr).inString THEN FixAtQuote(jsonStr, LastIndexOf(jsonStr, <<"\"">>))
    ELSE jsonStr

\* Variant: the braces are closed before the brackets.
CloseOpen_BracesFirst(result, sc) ==
    result \o Repeat("}", IF sc.braceCount > 0 THEN sc.braceCount ELSE 0)
           \o Repeat("]", IF sc.bracketCount > 0 THEN sc.bracketCount ELSE 0)

\* sc is the recount of result: close the open brackets, then the braces.
CloseOpen(result, sc) ==
    result \o Repeat("]", IF sc.bracketCount > 0 THEN sc.bracketCount ELSE 0)
           \o Repeat("}", IF sc.braceCount > 0 THEN sc.braceCount ELSE 0)

Recount(result) == CloseOpen(result, Scan(result))

repairTruncatedJson(jsonStr) == Recount(StringFix(jsonStr))

\* The backtick character, which has no TLA+ string literal.
BT == "<BT>"

\* The markdown fence with its json tag, and the plain fence.
FenceJson == <<BT, BT, BT, "j", "s", "o", "n">>

Fence == <<BT, BT, BT>>

\* text.split(marker)[1]?.split(Fence)[0] ?? text
SecondPiece(text, pieces) ==
    IF Len(pieces) >= 2 THEN Split(pieces[2], Fence)[1] ELSE text

BetweenFences(text, marker) == SecondPiece(text, Split(text, marker))

\* Variant: the plain fence is looked for before the json fence.
StripFences_PlainFirst(text) ==
    IF Includes(text, Fence) THEN BetweenFences(text, Fence)
    ELSE IF Includes(text, FenceJson) THEN BetweenFences(text, FenceJson)
    ELSE text

StripFences(text) ==
    IF Includes(text, FenceJson) THEN BetweenFences(text, FenceJson)
    ELSE IF Includes(text, Fence) THEN BetweenFences(text, Fence)
    ELSE text

\* jsonStr is the stripped and trimmed text.
RepairIfInvalid(jsonStr) ==
    IF ~isValidJson(jsonStr) THEN repairTruncatedJson(jsonStr) ELSE jsonStr

extractJsonFromText(text) == RepairIfInvalid(Trim(StripFences(text)))

----------------------------------------------------------------------------
(* Configuration (config.ts).                                              *)

MAX_ATTEMPTS == 3

INITIAL_DELAY_MS == 1000

MAX_DELAY_MS == 10000

BACKOFF_MULTIPLIER == 2

\* CONFIG.RETRY
RETRY ==
    [MAX_ATTEMPTS |-> MAX_ATTEMPTS, INITIAL_DELAY_MS |-> INITIAL_DELAY_MS,
     MAX_DELAY_MS |-> MAX_DELAY_MS, BACKOFF_MULTIPLIER |-> BACKOFF_MULTIPLIER]

\* AI_PROMPT_TEMPLATE: the text before and after the {{CLINICAL_NOTES}}
\* placeholder, each kept as one token.
PromptHead == "Parse clinical notes to JSON for NTUH EMR. ... Notes:\n"

PromptTail == "\n\nReturn only valid JSON."

\* AI_PROMPT_TEMPLATE.replace('{{CLINICAL_NOTES}}', textContent)
PromptFor(textContent) == <<PromptHead>> \o textContent \o <<PromptTail>>

\* '(See attached image for clinical notes)', kept as one token.
ImageStandIn == <<"(See attached image for clinical notes)">>

GenerationConfig == [temperature |-> "0.1", maxOutputTokens |-> 8192]

----------------------------------------------------------------------------
(* Errors (errors.ts).  An error is its class name, its statusCode (0 for  *)
(* classes without one) and its message.                                   *)

NoError == [name |-> "null", statusCode |-> 0, message |-> ""]

ApiError(message, statusCode) ==
    [name |-> "ApiError", statusCode |-> statusCode, message |-> message]

NetworkError(message) ==
    [name |-> "NetworkError", statusCode |-> 0, message |-> message]

ValidationError(message) ==
    [name |-> "ValidationError", statusCode |-> 0, message |-> message]

\* A built-in error: Error, TypeError (fetch rejected), SyntaxError (JSON).
BuiltinError(name, message) ==
    [name |-> name, statusCode |-> 0, message |-> message]

UnknownMessage == "An unexpected error occurred. Please try again."

\* ERROR_MESSAGES[statusCode] ?? ERROR_MESSAGES['UNKNOWN']
StatusMessage(statusCode) ==
    CASE statusCode = 400 -> "Invalid request. Please check your input and try again."
      [] statusCode = 401 -> "Invalid API key. Please check your Gemini API key."
      [] statusCode = 403 -> "Access denied. Your API key may not have the required permissions."
      [] statusCode = 404 -> "API endpoint not found. The service may be temporarily unavailable."
      [] statusCode = 429 -> "Rate limit exceeded. Please wait a moment before trying again."
      [] statusCode = 500 -> "Server error. The AI service is experiencing issues."
      [] statusCode = 502 -> "Bad gateway. The AI service is temporarily unavailable."
      [] statusCode = 503 -> "Service unavailable. Please try again later."
      [] OTHER -> UnknownMessage

\* Variant: the service's own message, when there is one, is shown.
getErrorMessage_ServerText(error, onLine) ==
    IF error.message # "" THEN error.message ELSE StatusMessage(error.statusCode)

\* getErrorMessage; onLine is navigator.onLine at the time of the call.
getErrorMessage(error, onLine) ==
    IF error.name = "ApiError" THEN StatusMessage(error.statusCode)
    ELSE IF error.name = "NetworkError" THEN
        (IF ~onLine THEN "You appear to be offline. Please check your connection."
         ELSE "Network error. Please check your internet connection.")
    ELSE IF error.name \in {"ValidationError", "Error", "TypeError", "SyntaxError"} THEN
        (IF error.message # "" THEN error.message ELSE UnknownMessage)
    ELSE UnknownMessage

\* Variant: request timeouts are retried as well.
RetryableStatus_With408 == {408, 429, 500, 502, 503}

RetryableStatus == {429, 500, 502, 503}

\* Variant: only connectivity failures are retried.
isRetryableError_NetworkOnly(error) == error.name = "NetworkError"

isRetryableError(error) ==
    IF error.name = "NetworkError" THEN TRUE
    ELSE IF error.name = "ApiError" THEN error.statusCode \in RetryableStatus
    ELSE FALSE

RECURSIVE Pow(_, _)
Pow(b, n) == IF n = 0 THEN 1 ELSE b * Pow(b, n - 1)

\* Math.min of two numbers.
MathMin(a, b) == IF a < b THEN a ELSE b

\* Variant: the exponential term is not capped.
calculateRetryDelay_Uncapped(attempt, config, jitter) ==
    config.INITIAL_DELAY_MS * Pow(config.BACKOFF_MULTIPLIER, attempt) + jitter

\* calculateRetryDelay in whole milliseconds; jitter is Math.random() * 1000.
calculateRetryDelay(attempt, config, jitter) ==
    MathMin(config.INITIAL_DELAY_MS * Pow(config.BACKOFF_MULTIPLIER, attempt),
            config.MAX_DELAY_MS)
    + jitter

\* Math.round(delay / 1000)
RoundSeconds(delay) == (delay + 500) \div 1000

----------------------------------------------------------------------------
(* The inputs the environment can supply.                                  *)

\* Input texts: empty, blank, and clinical notes.
InputTexts == {<<>>, <<" ">>, <<"f", "e", "v", "e", "r">>}

ApiKeys == {"key-A"}

Images == {[base64 |-> "aGk=", mimeType |-> "image/png", fileName |-> "note.png"]}

NoImage == [base64 |-> "", mimeType |-> "", fileName |-> ""]

\* '{"chief_complaint":"fever and cough"}'
PayloadChief ==
    <<"{", "\"", "c", "h", "i", "e", "f", "_", "c", "o", "m", "p", "l", "a", "i", "n", "t",
      "\"", ":", "\"", "f", "e", "v", "e", "r", " ", "a", "n", "d", " ", "c", "o", "u", "g",
      "h", "\"", "}">>

\* '{"a": [1,2,3' : cut off inside an array.
PayloadTruncated == <<"{", "\"", "a", "\"", ":", " ", "[", "1", ",", "2", ",", "3">>

\* The fenced payload of three backticks, json, newline, {"x":1}, newline,
\* three backticks.
PayloadFenced ==
    FenceJson \o <<"\n", "{", "\"", "x", "\"", ":", "1", "}", "\n">> \o Fence

\* '{"a":1,' : a dangling comma, which the repair does not heal.
PayloadDangling == <<"{", "\"", "a", "\"", ":", "1", ",">>

\* 'Sorry' : prose without any JSON.
PayloadProse == <<"S", "o", "r", "r", "y">>

Candidate(texts, finishReason) ==
    [parts |-> [k \in 1..Len(texts) |-> [text |-> texts[k]]], finishReason |-> finishReason]

\* Bodies of successful (response.ok) answers.  A part without text has the
\* empty text; a candidate without content.parts has no parts.
ResponseBodies ==
    { [candidates |-> <<>>],
      [candidates |-> <<Candidate(<<>>, "STOP")>>],
      [candidates |-> <<Candidate(<<<<>>, <<" ">>>>, "STOP")>>],
      [candidates |-> <<Candidate(<<PayloadChief>>, "STOP")>>],
      [candidates |-> <<Candidate(<<PayloadTruncated>>, "MAX_TOKENS")>>],
      [candidates |-> <<Candidate(<<PayloadProse, PayloadFenced>>, "STOP")>>],
      [candidates |-> <<Candidate(<<PayloadDangling>>, "MAX_TOKENS")>>],
      [candidates |-> <<Candidate(<<PayloadProse>>, "STOP")>>] }

\* Non-ok answers of the transport: the status and the error.message of
\* the failure body ("" when the body carries none or does not parse).
FailureAnswers ==
    {<<401, "">>, <<401, "API key not valid">>, <<404, "">>,
     <<429, "">>, <<500, "">>, <<503, "">>}

\* What one fetch() can come back with: a rejection (no response), a
\* non-ok response, an ok response whose body is not JSON, an ok response.
TransportOutcomes ==
    {[t |-> "reject", status |-> 0, message |-> "Failed to fetch", data |-> [candidates |-> <<>>]]}
    \cup {[t |-> "status", status |-> f[1], message |-> f[2], data |-> [candidates |-> <<>>]] :
             f \in FailureAnswers}
    \cup {[t |-> "badbody", status |-> 200, message |-> "", data |-> [candidates |-> <<>>]]}
    \cup {[t |-> "ok", status |-> 200, message |-> "", data |-> d] : d \in ResponseBodies}

\* Values of Math.random() * 1000, in whole milliseconds.
JitterSamples == {0, 999}

----------------------------------------------------------------------------
(* State.                                                                  *)

VARIABLES
    storedKey,      \* localStorage value behind ApiKeyManager ("" when absent)
    currentImage,   \* ImageManager.currentImage (NoImage when null)
    call,           \* the local variables of the parseWithAI invocation
    log,            \* what the callbacks, the transport and the timer observed
    probe,          \* a pure function's arguments and, once applied, its result
    voice,          \* the VoiceRecognitionManager's fields and its transport
    heard           \* what the voice callbacks and the transport observed

vars == <<storedKey, currentImage, call, log, probe, voice, heard>>

NoProbe == [fn |-> "none"]

\* CONFIG.VOICE.LANGUAGES and DEFAULT_LANGUAGE
CHINESE == "zh-TW"

ENGLISH == "en-US"

DEFAULT_LANGUAGE == CHINESE

\* A VoiceRecognitionManager as constructed, on a platform that does or
\* does not offer speech recognition.  recognition is whether the handle
\* exists and lang its language tag; started and endPending are the
\* transport's own state: start() accepted and no end delivered since, and
\* an end event owed after stop() or an error.
NewVoice(supported) ==
    [supported |-> supported, recognition |-> FALSE, lang |-> "",
     isRecording |-> FALSE, language |-> DEFAULT_LANGUAGE,
     started |-> FALSE, endPending |-> FALSE]

IdleCall ==
    [pc |-> "idle", attempt |-> 0, lastError |-> NoError, apiKey |-> "",
     hasImage |-> FALSE, hasText |-> FALSE, parts |-> <<>>, delay |-> 0]

\* Events of the log.
CallEv(inputText, key, image) ==
    [ev |-> "call", inputText |-> inputText, key |-> key, image |-> image]

StatusEv(message, n, kind) == [ev |-> "status", message |-> message, n |-> n, kind |-> kind]

ProbeEv(result) == [ev |-> "isOnline", result |-> result]

FetchEv(key, parts) ==
    [ev |-> "fetch", key |-> key, parts |-> parts, generationConfig |-> GenerationConfig]

SettleEv(outcome) == [ev |-> "settle", outcome |-> outcome]

SleepEv(ms) == [ev |-> "sleep", ms |-> ms]

WakeEv == [ev |-> "wake"]

SuccessEv(data) == [ev |-> "onSuccess", data |-> data]

ErrorEv(error) == [ev |-> "onError", error |-> error]

\* The value the promise resolves with: null, or the parsed data.
ReturnEv(isNull, data) == [ev |-> "return", isNull |-> isNull, data |-> data]

----------------------------------------------------------------------------
(* parseWithAI (api.ts).  The code between two awaits runs without         *)
(* interruption; each operator below maps the invocation's state           *)
(* st = [call, log] to its state at the next await or at the return.       *)

Emit(st, e) == [st EXCEPT !.log = Append(@, e)]

NullValue == [lit |-> "null"]

\* After the loop: the final error notification, onError, return null.
Finish(st, onLine) ==
    LET s1 == Emit(st, StatusEv(getErrorMessage(st.call.lastError, onLine), 0, "error"))
        s2 == Emit(s1, ErrorEv(st.call.lastError))
        s3 == Emit(s2, ReturnEv(TRUE, NullValue))
    IN  [s3 EXCEPT !.call.pc = "done"]

RECURSIVE Attempt(_, _, _)

\* Variant: every error is retried while attempts remain.
Catch_AlwaysRetry(st, error, onLine, jitter) ==
    LET s1 == [st EXCEPT !.call.lastError = error]
        delay == calculateRetryDelay(st.call.attempt, RETRY, jitter)
        s2 == Emit(s1, StatusEv("Rate limited. Retrying in ${n} seconds...",
                                RoundSeconds(delay), "loading"))
    IN  IF st.call.attempt < MAX_ATTEMPTS - 1
        THEN [Emit(s2, SleepEv(delay)) EXCEPT !.call.pc = "sleep", !.call.delay = delay]
        ELSE Finish(s1, onLine)

\* Variant: the backoff sleep is started but not awaited.
Catch_SleepNotAwaited(st, error, onLine, jitter) ==
    LET s1 == [st EXCEPT !.call.lastError = error]
        delay == calculateRetryDelay(st.call.attempt, RETRY, jitter)
        s2 == Emit(s1, StatusEv("Rate limited. Retrying in ${n} seconds...",
                                RoundSeconds(delay), "loading"))
    IN  IF isRetryableError(error) /\ st.call.attempt < MAX_ATTEMPTS - 1
        THEN Attempt([Emit(s2, SleepEv(delay)) EXCEPT !.call.attempt = @ + 1], onLine, jitter)
        ELSE Finish(s1, onLine)

\* Variant: only the first failure of an invocation is recorded.
Catch_KeepsFirstError(st, error, onLine, jitter) ==
    LET s1 == IF st.call.lastError = NoError THEN [st EXCEPT !.call.lastError = error] ELSE st
        delay == calculateRetryDelay(st.call.attempt, RETRY, jitter)
    IN  IF isRetryableError(error) /\ st.call.attempt < MAX_ATTEMPTS - 1
        THEN [Emit(Emit(s1, StatusEv("Rate limited. Retrying in ${n} seconds...",
                                     RoundSeconds(delay), "loading")),
                   SleepEv(delay))
                 EXCEPT !.call.pc = "sleep", !.call.delay = delay]
        ELSE Finish(s1, onLine)

\* Variant: a retryable error is backed off from on the last attempt too.
Catch_SleepsOnLastAttempt(st, error, onLine, jitter) ==
    LET s1 == [st EXCEPT !.call.lastError = error]
        delay == calculateRetryDelay(st.call.attempt, RETRY, jitter)
    IN  IF isRetryableError(error) /\ st.call.attempt < MAX_ATTEMPTS
        THEN LET s2 == Emit(s1, StatusEv("Rate limited. Retrying in ${n} seconds...",
                                         RoundSeconds(delay), "loading"))
                 s3 == Emit(s2, SleepEv(delay))
             IN  [s3 EXCEPT !.call.pc = "sleep", !.call.delay = delay]
        ELSE Finish(s1, onLine)

\* Variant: onError is invoked for a failure that is retried as well.
Catch_NotifiesEveryFailure(st, error, onLine, jitter) ==
    LET s1 == [st EXCEPT !.call.lastError = error]
        delay == calculateRetryDelay(st.call.attempt, RETRY, jitter)
    IN  IF isRetryableError(error) /\ st.call.attempt < MAX_ATTEMPTS - 1
        THEN LET s2 == Emit(Emit(s1, ErrorEv(error)),
                            StatusEv("Rate limited. Retrying in ${n} seconds...",
                                     RoundSeconds(delay), "loading"))
                 s3 == Emit(s2, SleepEv(delay))
             IN  [s3 EXCEPT !.call.pc = "sleep", !.call.delay = delay]
        ELSE Finish(s1, onLine)

\* The catch block: record the error, then back off or leave the loop.
Catch(st, error, onLine, jitter) ==
    LET s1 == [st EXCEPT !.call.lastError = error]
        delay == calculateRetryDelay(st.call.attempt, RETRY, jitter)
    IN  IF isRetryableError(error) /\ st.call.attempt < MAX_ATTEMPTS - 1
        THEN LET s2 == Emit(s1, StatusEv("Rate limited. Retrying in ${n} seconds...",
                                         RoundSeconds(delay), "loading"))
                 s3 == Emit(s2, SleepEv(delay))
             IN  [s3 EXCEPT !.call.pc = "sleep", !.call.delay = delay]
        ELSE Finish(s1, onLine)

\* Variant: the request is sent without asking the connectivity probe.
Attempt_NoProbeCheck(st, onLine, jitter) ==
    LET s1 == Emit(st, StatusEv(IF st.call.attempt = 0
                                THEN "Parsing with AI... This may take a few seconds."
                                ELSE "Retrying... (attempt ${n}/${MAX_ATTEMPTS})",
                                IF st.call.attempt = 0 THEN 0 ELSE st.call.attempt + 1,
                                "loading"))
        s2 == Emit(s1, ProbeEv(onLine))
    IN  [Emit(s2, FetchEv(st.call.apiKey, st.call.parts)) EXCEPT !.call.pc = "fetch"]

\* Variant: each attempt reads the stored credential anew.
Attempt_ReadsStoredKey(st, onLine, jitter) ==
    LET statusMsg ==
            IF st.call.attempt = 0
            THEN (IF st.call.hasImage
                  THEN "Parsing image and notes with AI... This may take a few seconds."
                  ELSE "Parsing with AI... This may take a few seconds.")
            ELSE "Retrying... (attempt ${n}/${MAX_ATTEMPTS})"
        n  == IF st.call.attempt = 0 THEN 0 ELSE st.call.attempt + 1
        s1 == Emit(st, StatusEv(statusMsg, n, "loading"))
        s2 == Emit(s1, ProbeEv(onLine))
    IN  IF ~onLine
        THEN Catch(s2, NetworkError("You appear to be offline."), onLine, jitter)
        ELSE [Emit(s2, FetchEv(storedKey, st.call.parts)) EXCEPT !.call.pc = "fetch"]

\* The loop body up to the await of fetch().
Attempt(st, onLine, jitter) ==
    LET statusMsg ==
            IF st.call.attempt = 0
            THEN (IF st.call.hasImage
                  THEN "Parsing image and notes with AI... This may take a few seconds."
                  ELSE "Parsing with AI... This may take a few seconds.")
            ELSE "Retrying... (attempt ${n}/${MAX_ATTEMPTS})"
        n  == IF st.call.attempt = 0 THEN 0 ELSE st.call.attempt + 1
        s1 == Emit(st, StatusEv(statusMsg, n, "loading"))
        s2 == Emit(s1, ProbeEv(onLine))
    IN  IF ~onLine
        THEN Catch(s2, NetworkError("You appear to be offline."), onLine, jitter)
        ELSE [Emit(s2, FetchEv(st.call.apiKey, st.call.parts)) EXCEPT !.call.pc = "fetch"]

\* The loop condition, evaluated on entry and after each continue.
LoopTest(st, onLine, jitter) ==
    IF st.call.attempt < MAX_ATTEMPTS THEN Attempt(st, onLine, jitter)
    ELSE Finish(st, onLine)

\* The request parts: the prompt, then the image when one is held.
BuildParts(inputText, hasText, image) ==
    <<[text |-> PromptFor(IF hasText THEN inputText ELSE ImageStandIn)]>>
    \o (IF image # NoImage
        THEN <<[inlineData |-> [mimeType |-> image.mimeType, data |-> image.base64]]>>
        ELSE <<>>)

\* Variant: the credential is not checked before the request is built.
Start_NoKeyCheck(inputText, key, image, onLine, jitter) ==
    LET hasImage == image # NoImage
        hasText == Trim(inputText) # <<>>
        st0 == [call |-> IdleCall, log |-> <<CallEv(inputText, key, image)>>]
    IN  IF ~hasText /\ ~hasImage
        THEN [Emit(Emit(st0, StatusEv("Please enter some notes or upload an image to parse.",
                                      0, "error")),
                   ReturnEv(TRUE, NullValue))
                 EXCEPT !.call.pc = "done"]
        ELSE LoopTest([st0 EXCEPT !.call.apiKey = key,
                                  !.call.hasImage = hasImage,
                                  !.call.hasText = hasText,
                                  !.call.parts = BuildParts(inputText, hasText, image)],
                      onLine, jitter)

\* From the call to the first await (or to the return, when validation
\* fails or the host is offline on the only attempt).
Start(inputText, key, image, onLine, jitter) ==
    LET hasImage == image # NoImage
        hasText == Trim(inputText) # <<>>
        st0 == [call |-> IdleCall, log |-> <<CallEv(inputText, key, image)>>]
        fail(message) ==
            [Emit(Emit(st0, StatusEv(message, 0, "error")), ReturnEv(TRUE, NullValue))
                EXCEPT !.call.pc = "done"]
    IN  IF key = "" THEN fail("Please enter your Gemini API key first.")
        ELSE IF ~hasText /\ ~hasImage
             THEN fail("Please enter some notes or upload an image to parse.")
        ELSE LoopTest([st0 EXCEPT !.call.apiKey = key,
                                  !.call.hasImage = hasImage,
                                  !.call.hasText = hasText,
                                  !.call.parts = BuildParts(inputText, hasText, image)],
                      onLine, jitter)

\* Indices of the parts a selection strategy accepts.
Strategy1(parts) ==
    {k \in 1..Len(parts) :
        /\ parts[k].text # <<>>
        /\ \/ StartsWith(Trim(parts[k].text), <<"{">>)
           \/ StartsWith(Trim(parts[k].text), FenceJson)}

Strategy2(parts) ==
    {k \in 1..Len(parts) :
        /\ parts[k].text # <<>>
        /\ Includes(parts[k].text, <<"{">>)
        /\ Includes(parts[k].text, <<"}">>)}

Strategy3(parts) == {k \in 1..Len(parts) : Trim(parts[k].text) # <<>>}

\* Variant: the fallback takes the first non-blank part, not the last.
SelectText_FirstNonBlank(data) ==
    LET parts == IF data.candidates = <<>> THEN <<>> ELSE data.candidates[1].parts
    IN  IF Strategy1(parts) # {} THEN parts[Min(Strategy1(parts))].text
        ELSE IF Strategy2(parts) # {} THEN parts[Min(Strategy2(parts))].text
        ELSE IF Strategy3(parts) # {} THEN parts[Min(Strategy3(parts))].text
        ELSE <<>>

\* The payload text chosen from data.candidates[0]; <<>> when there is none.
SelectText(data) ==
    LET parts == IF data.candidates = <<>> THEN <<>> ELSE data.candidates[1].parts
    IN  IF Strategy1(parts) # {} THEN parts[Min(Strategy1(parts))].text
        ELSE IF Strategy2(parts) # {} THEN parts[Min(Strategy2(parts))].text
        ELSE IF Strategy3(parts) # {} THEN parts[Max(Strategy3(parts))].text
        ELSE <<>>

\* Variant: the success path lacks its return and falls out of the loop.
HandleParsed_NoReturn(st, parsed, onLine, jitter) ==
    IF ~parsed.ok
    THEN Catch(st, BuiltinError("SyntaxError", "Unexpected token in JSON"), onLine, jitter)
    ELSE Finish(Emit(Emit(st,
                StatusEv("Successfully parsed and populated form fields!", 0, "success")),
                SuccessEv(parsed.val)),
                onLine)

\* parsed is the result of JSON.parse(extractJsonFromText(text)).
HandleParsed(st, parsed, onLine, jitter) ==
    IF ~parsed.ok
    THEN Catch(st, BuiltinError("SyntaxError", "Unexpected token in JSON"), onLine, jitter)
    ELSE [Emit(Emit(Emit(st,
                StatusEv("Successfully parsed and populated form fields!", 0, "success")),
                SuccessEv(parsed.val)),
                ReturnEv(FALSE, parsed.val))
            EXCEPT !.call.pc = "done"]

\* Variant: the selected text is parsed as it is, without extraction.
HandleText_RawText(st, text, onLine, jitter) ==
    IF text = <<>>
    THEN Catch(st, BuiltinError("Error",
             "Empty response from AI. The model returned no text content. Try using Gemini 2.0 Flash."),
             onLine, jitter)
    ELSE HandleParsed(st, JsonParse(text), onLine, jitter)

\* text is the selected payload text (<<>> when none was found).
HandleText(st, text, onLine, jitter) ==
    IF text = <<>>
    THEN Catch(st, BuiltinError("Error",
             "Empty response from AI. The model returned no text content. Try using Gemini 2.0 Flash."),
             onLine, jitter)
    ELSE HandleParsed(st, JsonParse(extractJsonFromText(text)), onLine, jitter)

\* The rest of the try block once the response body has been read.
HandleData(st, data, onLine, jitter) == HandleText(st, SelectText(data), onLine, jitter)

\* From the settling of fetch() to the next await or the return.
Settle(st, outcome, onLine, jitter) ==
    LET s1 == Emit(st, SettleEv(outcome))
    IN  CASE outcome.t = "reject" ->
                Catch(s1, BuiltinError("TypeError", outcome.message), onLine, jitter)
          [] outcome.t = "status" ->
                Catch(s1, ApiError(IF outcome.message # "" THEN outcome.message
                                   ELSE "API request failed: ${response.status}",
                                   outcome.status),
                      onLine, jitter)
          [] outcome.t = "badbody" ->
                Catch(s1, BuiltinError("SyntaxError", "Unexpected token in JSON"),
                      onLine, jitter)
          [] outcome.t = "ok" -> HandleData(s1, outcome.data, onLine, jitter)

\* From the end of the backoff sleep (continue; attempt++) onwards.
Resume(st, onLine, jitter) ==
    LoopTest([Emit(st, WakeEv) EXCEPT !.call.attempt = @ + 1], onLine, jitter)

----------------------------------------------------------------------------
(* Actions.  navigator.onLine and Math.random() are signals of the host:   *)
(* each run of code between two awaits reads one value of each.            *)

Init ==
    /\ storedKey \in ApiKeys \cup {""}
    /\ currentImage \in Images \cup {NoImage}
    /\ call = IdleCall
    /\ log = <<>>
    /\ voice = NewVoice(TRUE)
    /\ heard = <<>>
    /\ probe = NoProbe

\* The caller invokes parseWithAI(inputText, callbacks); the UI keeps the
\* trigger disabled while an invocation runs.
Invoke ==
    /\ call.pc \in {"idle", "done"}
    /\ \E inputText \in InputTexts, onLine \in BOOLEAN, jitter \in JitterSamples :
          \E st \in {Start(inputText, storedKey, currentImage, onLine, jitter)} :
              call' = st.call /\ log' = st.log
    /\ UNCHANGED <<storedKey, currentImage, probe, voice, heard>>

\* The transport settles the outstanding fetch().
FetchSettles ==
    /\ call.pc = "fetch"
    /\ \E outcome \in TransportOutcomes, onLine \in BOOLEAN, jitter \in JitterSamples :
          \E st \in {Settle([call |-> call, log |-> log], outcome, onLine, jitter)} :
              call' = st.call /\ log' = st.log
    /\ UNCHANGED <<storedKey, currentImage, probe, voice, heard>>

\* The backoff timer fires.
SleepEnds ==
    /\ call.pc = "sleep"
    /\ \E onLine \in BOOLEAN, jitter \in JitterSamples :
          \E st \in {Resume([call |-> call, log |-> log], onLine, jitter)} :
              call' = st.call /\ log' = st.log
    /\ UNCHANGED <<storedKey, currentImage, probe, voice, heard>>

\* ApiKeyManager.save / clear from the settings dialog.
KeyChanges ==
    /\ \E k \in ApiKeys \cup {""} : k # storedKey /\ storedKey' = k
    /\ UNCHANGED <<currentImage, call, log, probe, voice, heard>>

\* ImageManager.setImage / clear.
ImageChanges ==
    /\ \E img \in Images \cup {NoImage} : img # currentImage /\ currentImage' = img
    /\ UNCHANGED <<storedKey, call, log, probe, voice, heard>>

Next ==
    \/ Invoke
    \/ FetchSettles
    \/ SleepEnds
    \/ KeyChanges
    \/ ImageChanges

Spec == Init /\ [][Next]_vars

----------------------------------------------------------------------------
(* Reading the log.                                                        *)

Evs(kind) == SelectSeq(log, LAMBDA e : e.ev = kind)

\* Number of events of a kind among the first k events.
CountUpTo(kind, k) == Cardinality({i \in 1..k : log[i].ev = kind})

\* What the transport answered, call by call.
Answers == [i \in 1..Len(Evs("settle")) |-> Evs("settle")[i].outcome]

\* What isOnline() returned, attempt by attempt.
Probes == [i \in 1..Len(Evs("isOnline")) |-> Evs("isOnline")[i].result]

Done == call.pc = "done"

ReturnedNull == Done /\ log[Len(log)] = ReturnEv(TRUE, NullValue)

IsStatus(outcome, code) == outcome.t = "status" /\ outcome.status = code

\* The invocation passed local validation with a credential and notes.
ValidCall ==
    /\ log # <<>>
    /\ log[1].key # ""
    /\ \E k \in 1..Len(log[1].inputText) : log[1].inputText[k] \notin TrimWs

----------------------------------------------------------------------------
(* Retry loop of parseWithAI.                                              *)

\* C1: with a credential, non-blank input and the host online on every
\* attempt, a transport that answers every call with status 500 is called
\* exactly MAX_ATTEMPTS times; the invocation then reports an ApiError of
\* status 500 and returns null.
C1_RetryBudget ==
    ( /\ Done
      /\ ValidCall
      /\ \A i \in 1..Len(Probes) : Probes[i]
      /\ \A i \in 1..Len(Answers) : IsStatus(Answers[i], 500) )
    => /\ Len(Evs("fetch")) = 3
       /\ Len(Answers) = 3
       /\ Len(Evs("onError")) = 1
       /\ Evs("onError")[1].error.name = "ApiError"
       /\ Evs("onError")[1].error.statusCode = 500
       /\ log[Len(log) - 1].ev = "onError"
       /\ ReturnedNull

C1_Witness ==
    /\ Done
    /\ ValidCall
    /\ Len(Answers) = 3
    /\ \A i \in 1..3 : IsStatus(Answers[i], 500)
    /\ \A i \in 1..Len(Probes) : Probes[i]

\* '{"chief_complaint":"fever and cough"}' as a value.
ChiefData ==
    [obj |-> << << <<"c", "h", "i", "e", "f", "_", "c", "o", "m", "p", "l", "a", "i", "n", "t">>,
                   [str |-> <<"f", "e", "v", "e", "r", " ", "a", "n", "d", " ", "c", "o", "u",
                              "g", "h">>] >> >>]

ChiefBody == [candidates |-> <<Candidate(<<PayloadChief>>, "STOP")>>]

IsChiefAnswer(outcome) == outcome.t = "ok" /\ outcome.data = ChiefBody

\* C2: when the transport answers 429 to the first two calls and a valid
\* payload to the third, the invocation returns the parsed payload after
\* exactly three transport calls and two backoff sleeps, with one onSuccess
\* and no onError.
C2_RecoveryAfterTransient ==
    ( /\ Len(Answers) = 3
      /\ IsStatus(Answers[1], 429)
      /\ IsStatus(Answers[2], 429)
      /\ IsChiefAnswer(Answers[3]) )
    => /\ Done
       /\ Len(Evs("fetch")) = 3
       /\ Len(Evs("sleep")) = 2
       /\ Len(Evs("wake")) = 2
       /\ Evs("onSuccess") = <<SuccessEv(ChiefData)>>
       /\ Evs("onError") = <<>>
       /\ log[Len(log)] = ReturnEv(FALSE, ChiefData)

C2_Witness ==
    /\ Len(Answers) = 3
    /\ IsStatus(Answers[1], 429)
    /\ IsStatus(Answers[2], 429)
    /\ IsChiefAnswer(Answers[3])
    /\ Done

\* C3: a 401 answer is never retried: no sleep and no transport call
\* follows it, the one 'error' status carries the invalid-API-key message,
\* and the invocation returns null; when it answers the first attempt (the
\* host being online), that call is the only one and there is no sleep.
C3_FatalStatusNotRetried ==
    /\ \A k \in 1..Len(log) :
          (log[k].ev = "settle" /\ IsStatus(log[k].outcome, 401))
          => /\ \A j \in (k + 1)..Len(log) : log[j].ev \notin {"sleep", "fetch", "wake"}
             /\ SelectSeq(log, LAMBDA e : e.ev = "status" /\ e.kind = "error")
                   = <<StatusEv("Invalid API key. Please check your Gemini API key.",
                                0, "error")>>
             /\ ReturnedNull
    /\ (Len(Answers) >= 1 /\ Probes[1] /\ IsStatus(Answers[1], 401))
       => /\ Len(Evs("fetch")) = 1
          /\ Evs("sleep") = <<>>

C3_Witness ==
    /\ Len(Answers) = 1
    /\ IsStatus(Answers[1], 401)
    /\ Answers[1].message # ""
    /\ Probes[1]
    /\ Done

\* The attempt (0-based) during which event k was logged.
AttemptAt(k) == CountUpTo("isOnline", k) - 1

\* C4: a fetch() that rejects without a response while attempts remain is
\* followed by the retry notification and a backoff sleep.
C4_TransportFailureRetried ==
    \A k \in 1..Len(log) :
        ( /\ log[k].ev = "settle"
          /\ log[k].outcome.t = "reject"
          /\ AttemptAt(k) < MAX_ATTEMPTS - 1 )
        => /\ Len(log) >= k + 2
           /\ log[k + 2].ev = "sleep"

IsBlank(text) == \A k \in 1..Len(text) : text[k] \in TrimWs

\* The invocation fails local validation: no credential, or neither notes
\* nor an image.
InvalidCall ==
    /\ log # <<>>
    /\ \/ log[1].key = ""
       \/ IsBlank(log[1].inputText) /\ log[1].image = NoImage

\* C5: an invocation without a stored credential, or with blank text and
\* no image, makes no transport call and no sleep, emits exactly one status
\* notification, of kind 'error', and returns null.
C5_ValidationIsLocal ==
    InvalidCall
    => /\ Evs("fetch") = <<>>
       /\ Evs("sleep") = <<>>
       /\ Evs("isOnline") = <<>>
       /\ Len(Evs("status")) = 1
       /\ Evs("status")[1].kind = "error"
       /\ ReturnedNull

C5_Witness ==
    /\ log # <<>>
    /\ log[1].key # ""
    /\ log[1].inputText = <<" ">>
    /\ log[1].image = NoImage
    /\ Done

\* C6: an attempt that finds the host offline makes no transport call and
\* records a NetworkError; an invocation that finds it offline on every
\* attempt performs MAX_ATTEMPTS attempts and MAX_ATTEMPTS - 1 sleeps, makes
\* no transport call, and ends with an 'error' status and null.
C6_OfflineAttempts ==
    /\ \A k \in 1..Len(log) :
          (log[k].ev = "isOnline" /\ ~log[k].result)
          => /\ Len(log) > k
             /\ log[k + 1].ev = "status"
             /\ \A j \in k..Len(log) :
                   AttemptAt(j) = AttemptAt(k) => log[j].ev # "fetch"
             /\ AttemptAt(Len(log)) = AttemptAt(k) => call.lastError.name = "NetworkError"
    /\ (Done /\ Probes # <<>> /\ \A i \in 1..Len(Probes) : ~Probes[i])
       => /\ Len(Probes) = 3
          /\ Len(Evs("sleep")) = 2
          /\ Evs("fetch") = <<>>
          /\ log[Len(log) - 2].ev = "status"
          /\ log[Len(log) - 2].kind = "error"
          /\ Evs("onError")[1].error.name = "NetworkError"
          /\ ReturnedNull

C6_Witness ==
    /\ Done
    /\ Len(Probes) = 3
    /\ \A i \in 1..3 : ~Probes[i]

\* Successful answers from which no payload can be had: no candidate, no
\* part, blank parts only, prose, and a dangling comma.
MalformedBodies ==
    { [candidates |-> <<>>],
      [candidates |-> <<Candidate(<<>>, "STOP")>>],
      [candidates |-> <<Candidate(<<<<>>, <<" ">>>>, "STOP")>>],
      [candidates |-> <<Candidate(<<PayloadDangling>>, "MAX_TOKENS")>>],
      [candidates |-> <<Candidate(<<PayloadProse>>, "STOP")>>] }

IsMalformedAnswer(e) ==
    e.ev = "settle" /\ e.outcome.t = "ok" /\ e.outcome.data \in MalformedBodies

\* C7: a successful answer without a selectable payload text, or whose
\* text does not parse even after repair, ends the invocation at that
\* attempt: no sleep and no transport call follows it, on any attempt.
C7_MalformedIsFatal ==
    \A k \in 1..Len(log) :
        IsMalformedAnswer(log[k])
        => /\ ReturnedNull
           /\ \A j \in (k + 1)..Len(log) : log[j].ev \notin {"sleep", "fetch", "wake"}
           /\ Len(Evs("onError")) = 1

C7_Witness ==
    /\ Len(Answers) = 1
    /\ Answers[1].t = "ok"
    /\ Answers[1].data = [candidates |-> <<Candidate(<<PayloadDangling>>, "MAX_TOKENS")>>]
    /\ AttemptAt(Len(log)) = 0
    /\ Done

\* '{"a": [1,2,3]}' and '{"x":1}' as values.
TruncatedData ==
    [obj |-> << << <<"a">>, [arr |-> <<[num |-> <<"1">>], [num |-> <<"2">>],
                                       [num |-> <<"3">>]>>] >> >>]

FencedData == [obj |-> << << <<"x">>, [num |-> <<"1">>] >> >>]

\* The value a successful answer's payload denotes (NullValue if none).
ExpectedData(data) ==
    CASE data = ChiefBody -> ChiefData
      [] data = [candidates |-> <<Candidate(<<PayloadTruncated>>, "MAX_TOKENS")>>]
            -> TruncatedData
      [] data = [candidates |-> <<Candidate(<<PayloadProse, PayloadFenced>>, "STOP")>>]
            -> FencedData
      [] OTHER -> NullValue

IsGoodAnswer(e) ==
    e.ev = "settle" /\ e.outcome.t = "ok" /\ ExpectedData(e.outcome.data) # NullValue

\* C8: the first attempt whose payload parses ends the invocation: one
\* 'success' status, one onSuccess and the return of the parsed data follow
\* the answer and nothing else does; when the first transport call returns
\* the one-part chief-complaint payload, the result is that object after
\* exactly one transport call.
C8_SuccessEndsInvocation ==
    /\ \A k \in 1..Len(log) :
          IsGoodAnswer(log[k])
          => /\ Len(log) = k + 3
             /\ log[k + 1] = StatusEv("Successfully parsed and populated form fields!",
                                      0, "success")
             /\ log[k + 2] = SuccessEv(ExpectedData(log[k].outcome.data))
             /\ log[k + 3] = ReturnEv(FALSE, ExpectedData(log[k].outcome.data))
             /\ Len(SelectSeq(log, LAMBDA e : e.ev = "status" /\ e.kind = "success")) = 1
             /\ Len(Evs("onSuccess")) = 1
             /\ Evs("onError") = <<>>
             /\ Done
    /\ (Len(Answers) >= 1 /\ IsChiefAnswer(Answers[1]))
       => /\ Len(Evs("fetch")) = 1
          /\ log[Len(log)] = ReturnEv(FALSE, ChiefData)

C8_Witness ==
    /\ Len(Answers) = 2
    /\ Answers[2].t = "ok"
    /\ ExpectedData(Answers[2].data) = TruncatedData
    /\ Done

\* C9: at most one transport call is outstanding at any time, and every
\* transport call but the first starts only after all earlier calls have
\* settled and every backoff sleep begun so far has completed.
C9_AttemptsSequential ==
    /\ Len(Evs("fetch")) - Len(Evs("settle")) \in {0, 1}
    /\ (Len(Evs("fetch")) - Len(Evs("settle")) = 1) <=> (call.pc = "fetch")
    /\ \A k \in 1..Len(log) :
          log[k].ev = "fetch"
          => /\ CountUpTo("settle", k) = CountUpTo("fetch", k) - 1
             /\ CountUpTo("wake", k) = CountUpTo("sleep", k)
    /\ \A k \in 1..Len(log) :
          log[k].ev = "sleep" => CountUpTo("settle", k) = CountUpTo("fetch", k)

C9_Witness ==
    /\ Len(Evs("fetch")) = 3
    /\ Len(Evs("settle")) = 2
    /\ call.pc = "fetch"

----------------------------------------------------------------------------
(* Failure classification, applied to errors of every class.               *)

\* Largest attempt number at which a classification is asked for.
MaxProbeAttempt == 3

ProbeStatusCodes == {200, 400, 401, 403, 404, 408, 418, 429, 500, 501, 502, 503, 504}

ErrorSamples ==
    {ApiError(m, c) : m \in {"", "Quota exceeded"}, c \in ProbeStatusCodes}
    \cup {NetworkError(""), NetworkError("You appear to be offline."),
          ValidationError(""), ValidationError("Email is required"),
          BuiltinError("Error", ""), BuiltinError("Error", "Something went wrong"),
          BuiltinError("TypeError", "Failed to fetch"),
          BuiltinError("SyntaxError", "Unexpected token in JSON")}

InitClassify ==
    /\ storedKey = ""
    /\ currentImage = NoImage
    /\ call = IdleCall
    /\ log = <<>>
    /\ voice = NewVoice(TRUE)
    /\ heard = <<>>
    /\ probe \in {[fn |-> "isRetryableError", error |-> e, attempt |-> a,
                   applied |-> FALSE, result |-> FALSE] :
                     e \in ErrorSamples, a \in 0..MaxProbeAttempt}

\* The catch block of attempt probe.attempt asks isRetryableError(error).
Classify ==
    /\ probe.fn = "isRetryableError"
    /\ ~probe.applied
    /\ probe' = [probe EXCEPT !.applied = TRUE, !.result = isRetryableError(probe.error)]
    /\ UNCHANGED <<storedKey, currentImage, call, log, voice, heard>>

NextClassify == Classify

SpecClassify == InitClassify /\ [][NextClassify]_vars

\* C10: isRetryableError is true exactly for a NetworkError and for an
\* ApiError of status 429, 500, 502 or 503; it is false for every other
\* ApiError status, for a ValidationError and for a plain Error, whatever
\* the message and the attempt number.
C10_Classification ==
    (probe.fn = "isRetryableError" /\ probe.applied)
    => LET e == probe.error
       IN  /\ e.name = "NetworkError" => probe.result
           /\ (e.name = "ApiError" /\ e.statusCode \in {429, 500, 502, 503}) => probe.result
           /\ (e.name = "ApiError" /\ e.statusCode \notin {429, 500, 502, 503}) => ~probe.result
           /\ e.name \in {"ValidationError", "Error", "TypeError", "SyntaxError"}
                 => ~probe.result

C10_Witness ==
    /\ probe.fn = "isRetryableError"
    /\ probe.applied
    /\ probe.error.name = "ApiError"
    /\ probe.error.statusCode = 503
    /\ probe.attempt = 2
    /\ probe.result

----------------------------------------------------------------------------
(* Backoff delays, computed for a retry configuration, an attempt number   *)
(* and the attempt after it, each with its own jitter draw.                *)

\* Largest attempt number for which a delay is computed.
MaxBackoffAttempt == 6

\* Retry configurations: CONFIG.RETRY and variations of its three numbers.
BackoffConfigs ==
    {[MAX_ATTEMPTS |-> MAX_ATTEMPTS, INITIAL_DELAY_MS |-> i,
      MAX_DELAY_MS |-> m, BACKOFF_MULTIPLIER |-> b] :
         i \in {500, INITIAL_DELAY_MS}, m \in {4000, MAX_DELAY_MS},
         b \in {1, BACKOFF_MULTIPLIER, 3}}

\* Values of Math.random() * 1000 over its whole range [0, 1000).
BackoffJitter == {0, 1, 500, 999}

InitBackoff ==
    /\ storedKey = ""
    /\ currentImage = NoImage
    /\ call = IdleCall
    /\ log = <<>>
    /\ voice = NewVoice(TRUE)
    /\ heard = <<>>
    /\ probe \in {[fn |-> "calculateRetryDelay", config |-> c, attempt |-> k,
                   jitter |-> j, jitterNext |-> jn, applied |-> FALSE,
                   delay |-> 0, next |-> 0] :
                     c \in BackoffConfigs, k \in 0..MaxBackoffAttempt,
                     j \in BackoffJitter, jn \in BackoffJitter}

\* The delay of attempt probe.attempt and of the attempt after it.
Backoff ==
    /\ probe.fn = "calculateRetryDelay"
    /\ ~probe.applied
    /\ probe' = [probe EXCEPT
                    !.applied = TRUE,
                    !.delay = calculateRetryDelay(probe.attempt, probe.config, probe.jitter),
                    !.next = calculateRetryDelay(probe.attempt + 1, probe.config,
                                                 probe.jitterNext)]
    /\ UNCHANGED <<storedKey, currentImage, call, log, voice, heard>>

NextBackoff == Backoff

SpecBackoff == InitBackoff /\ [][NextBackoff]_vars

\* C11: the delay of attempt k is the exponential term, capped at
\* MAX_DELAY_MS, plus the jitter; so it never exceeds MAX_DELAY_MS + 1000,
\* and the delay of attempt k + 1 is never more than 1000 ms below the
\* delay of attempt k, whatever the two jitter draws.
C11_BackoffCappedMonotonic ==
    (probe.fn = "calculateRetryDelay" /\ probe.applied)
    => /\ \/ /\ probe.config.INITIAL_DELAY_MS
                   * Pow(probe.config.BACKOFF_MULTIPLIER, probe.attempt)
                   <= probe.config.MAX_DELAY_MS
             /\ probe.delay = probe.config.INITIAL_DELAY_MS
                                * Pow(probe.config.BACKOFF_MULTIPLIER, probe.attempt)
                              + probe.jitter
          \/ /\ probe.config.INITIAL_DELAY_MS
                   * Pow(probe.config.BACKOFF_MULTIPLIER, probe.attempt)
                   > probe.config.MAX_DELAY_MS
             /\ probe.delay = probe.config.MAX_DELAY_MS + probe.jitter
       /\ probe.delay <= probe.config.MAX_DELAY_MS + 1000
       /\ probe.next <= probe.config.MAX_DELAY_MS + 1000
       /\ probe.next >= probe.delay - 1000

\* Both attempts are capped and the later delay is the smaller one.
C11_Witness ==
    /\ probe.fn = "calculateRetryDelay"
    /\ probe.applied
    /\ probe.config = RETRY
    /\ probe.attempt = 4
    /\ probe.delay = MAX_DELAY_MS + 999
    /\ probe.next = MAX_DELAY_MS

----------------------------------------------------------------------------
(* Reporting of a failed invocation.                                       *)

\* The error the try block throws for a settled fetch() that is not a
\* parseable payload.
ThrownFor(outcome) ==
    CASE outcome.t = "reject" -> BuiltinError("TypeError", outcome.message)
      [] outcome.t = "status" ->
            ApiError(IF outcome.message # "" THEN outcome.message
                     ELSE "API request failed: ${response.status}", outcome.status)
      [] outcome.t = "badbody" -> BuiltinError("SyntaxError", "Unexpected token in JSON")
      [] outcome.t = "ok" ->
            IF SelectText(outcome.data) = <<>>
            THEN BuiltinError("Error",
                     "Empty response from AI. The model returned no text content. Try using Gemini 2.0 Flash.")
            ELSE BuiltinError("SyntaxError", "Unexpected token in JSON")

\* Positions of the log at which an attempt failed: an offline probe, or a
\* settled fetch().
FailurePoints ==
    {k \in 1..Len(log) : \/ log[k].ev = "settle"
                         \/ log[k].ev = "isOnline" /\ ~log[k].result}

\* The failure caught at position k of the log.
FailureAt(k) ==
    IF log[k].ev = "isOnline" THEN NetworkError("You appear to be offline.")
    ELSE ThrownFor(log[k].outcome)

\* The invocation entered the retry loop and left it without a result.
LoopExhausted == Done /\ Probes # <<>> /\ Evs("onSuccess") = <<>>

\* C12: an invocation whose retry loop exits without success emits exactly
\* one 'error' status, whose message is that of the failure caught last,
\* then invokes onError once with that failure, then returns null.
C12_ExhaustionReporting ==
    LoopExhausted
    => /\ FailurePoints # {}
       /\ Len(log) >= 3
       /\ log[Len(log) - 2].ev = "status"
       /\ log[Len(log) - 2].kind = "error"
       /\ log[Len(log) - 2].message
             = getErrorMessage(FailureAt(Max(FailurePoints)),
                               log[Max(FailurePoints)].ev # "isOnline")
       /\ Len(SelectSeq(log, LAMBDA e : e.ev = "status" /\ e.kind = "error")) = 1
       /\ log[Len(log) - 1] = ErrorEv(FailureAt(Max(FailurePoints)))
       /\ Len(Evs("onError")) = 1
       /\ ReturnedNull

\* A 500 answer, then an offline attempt, then a 404 answer: the report is
\* the endpoint-not-found message.
C12_Witness ==
    /\ LoopExhausted
    /\ Len(Answers) = 2
    /\ IsStatus(Answers[1], 500)
    /\ IsStatus(Answers[2], 404)
    /\ Probes = <<TRUE, FALSE, TRUE>>
    /\ log[Len(log) - 2].message
          = "API endpoint not found. The service may be temporarily unavailable."

----------------------------------------------------------------------------
(* JSON extraction applied to texts a model can answer with: a payload,    *)
(* whole or cut off, bare or inside markdown fences.                       *)

\* Payloads: valid JSON, truncated JSON, prose.
ExtractCores ==
    {
      \* an object
      <<"{", "\"", "x", "\"", ":", "1", "}">>,
      \* an object with a string value
      <<"{", "\"", "k", "e", "y", "\"", ":", " ", "\"", "v", "a", "l", "u", "e", "\"", "}">>,
      \* an array
      <<"[", "1", ",", "2", "]">>,
      \* an object whose string value holds a fence marker
      <<"{", "\"", "a", "\"", ":", "\"", BT, BT, BT, "\"", "}">>,
      \* cut off inside an array
      <<"{", "\"", "a", "\"", ":", " ", "[", "1", ",", "2", ",", "3">>,
      \* cut off inside a string value
      <<"{", "\"", "a", "\"", ":", " ", "\"", "h", "e", "l", "l", "o">>,
      \* cut off after a comma
      <<"{", "\"", "a", "\"", ":", "1", ",">>,
      \* cut off inside nested containers
      <<"{", "\"", "a", "\"", ":", "{", "\"", "b", "\"", ":", "[", "[", "1">>,
      \* cut off inside a string element after a comma
      <<"[", "\"", "x", "\"", ",", "\"", "y">>,
      \* cut off inside the first string element
      <<"[", "\"", "x">>,
      \* cut off inside a key
      <<"{", "\"", "a", "\"", ":", "\"", "b", "\"", ",", "\"", "c">>,
      \* cut off after a key
      <<"{", "\"", "a", "\"">>,
      \* cut off inside a string, after an escaped quote
      <<"{", "\"", "k", "\"", ":", "\"", "v", "\\", "\"", "w">>,
      \* cut off inside a string value of an object inside an array
      <<"[", "{", "\"", "a", "\"", ":", " ", "\"", "h", "e", "l">>,
      \* cut off inside an object inside an array
      <<"[", "{", "\"", "a", "\"", ":", "1">>,
      \* a closing bracket inside a string, the object left open
      <<"{", "\"", "a", "\"", ":", "\"", "]", "\"">>,
      \* a closing bracket without its opening one
      <<"1", "]">>,
      \* an unterminated string from the first character
      <<"\"", "a", "b", "c">>,
      \* prose
      <<"S", "o", "r", "r", "y">>,
      \* nothing
      <<>>
    }

\* What a payload can be preceded by.
ExtractPrefixes ==
    {
      \* nothing
      <<>>,
      \* a blank
      <<" ">>,
      \* a json fence
      <<BT, BT, BT, "j", "s", "o", "n", "\n">>,
      \* a plain fence
      <<BT, BT, BT, "\n">>,
      \* prose, then a json fence
      <<"H", "e", "r", "e", ":", " ", BT, BT, BT, "j", "s", "o", "n", " ">>
    }

\* What a payload can be followed by.
ExtractSuffixes ==
    {
      \* nothing
      <<>>,
      \* a newline
      <<"\n">>,
      \* a closing fence
      <<"\n", BT, BT, BT>>,
      \* a closing fence, then prose
      <<"\n", BT, BT, BT, "\n", "b", "y", "e">>,
      \* a second fenced block
      <<"\n", BT, BT, BT, "j", "s", "o", "n", "\n", "[", "1", "]", "\n", BT, BT, BT>>
    }

ExtractTexts ==
    {p \o c \o s : p \in ExtractPrefixes, c \in ExtractCores, s \in ExtractSuffixes}

InitExtract ==
    /\ storedKey = ""
    /\ currentImage = NoImage
    /\ call = IdleCall
    /\ log = <<>>
    /\ voice = NewVoice(TRUE)
    /\ heard = <<>>
    /\ probe \in {[fn |-> "extractJsonFromText", text |-> t, applied |-> FALSE,
                   result |-> <<>>] : t \in ExtractTexts}

\* parseWithAI hands the selected payload text to extractJsonFromText.
Extract ==
    /\ probe.fn = "extractJsonFromText"
    /\ ~probe.applied
    /\ probe' = [probe EXCEPT !.applied = TRUE, !.result = extractJsonFromText(probe.text)]
    /\ UNCHANGED <<storedKey, currentImage, call, log, voice, heard>>

NextExtract == Extract

SpecExtract == InitExtract /\ [][NextExtract]_vars

Extracted == probe.fn = "extractJsonFromText" /\ probe.applied

\* C13: a text that parses as JSON is returned exactly as it is.
C13_ValidInputUntouched ==
    (Extracted /\ isValidJson(probe.text)) => probe.result = probe.text

\* The text extractJsonFromText works on: fences stripped, then trimmed.
Stripped == Trim(StripFences(probe.text))

\* Character i follows a backslash that is not itself escaped.
RECURSIVE AfterBackslash(_, _)
AfterBackslash(s, i) == i > 1 /\ s[i - 1] = "\\" /\ ~AfterBackslash(s, i - 1)

\* Number of string delimiters in front of position i.
QuotesBefore(s, i) ==
    Cardinality({j \in 1..(i - 1) : s[j] = "\"" /\ ~AfterBackslash(s, j)})

EndsInsideString(s) == QuotesBefore(s, Len(s) + 1) % 2 = 1

\* Occurrences of the character c outside strings.
CountOutside(s, c) ==
    Cardinality({i \in 1..Len(s) :
                    s[i] = c /\ ~AfterBackslash(s, i) /\ QuotesBefore(s, i) % 2 = 0})

\* Containers opened and not closed (0 when more are closed than opened).
NetOpen(s, open, close) ==
    IF CountOutside(s, open) > CountOutside(s, close)
    THEN CountOutside(s, open) - CountOutside(s, close)
    ELSE 0

\* C14: when the stripped text does not parse and its scan does not end
\* inside a string, the result is the stripped text, then one ']' per
\* net-open '[', then one '}' per net-open '{', and nothing else;
\* '{"a": [1,2,3' becomes '{"a": [1,2,3]}', which parses.
C14_ClosesOpenContainers ==
    /\ (Extracted /\ ~isValidJson(Stripped) /\ ~EndsInsideString(Stripped))
       => probe.result = Stripped \o Repeat("]", NetOpen(Stripped, "[", "]"))
                                  \o Repeat("}", NetOpen(Stripped, "{", "}"))
    /\ (Extracted /\ probe.text = PayloadTruncated)
       => /\ probe.result = PayloadTruncated \o <<"]", "}">>
          /\ JsonParse(probe.result) = ParseOk(Len(probe.result) + 1, TruncatedData)

\* A fenced payload cut off inside two arrays inside two objects.
C14_Witness ==
    /\ Extracted
    /\ probe.text # Stripped
    /\ ~isValidJson(Stripped)
    /\ ~EndsInsideString(Stripped)
    /\ NetOpen(Stripped, "[", "]") = 2
    /\ NetOpen(Stripped, "{", "}") = 2
    /\ isValidJson(probe.result)

\* Position of the last quote character of s (0 when there is none).
LastQuoteAt(s) ==
    IF \E i \in 1..Len(s) : s[i] = "\"" THEN Max({i \in 1..Len(s) : s[i] = "\""}) ELSE 0

\* The last quote of s follows, blanks aside, a ':', a ',' or a '['.
QuoteOpensValue(s) ==
    \E j \in 1..(LastQuoteAt(s) - 1) :
        /\ s[j] \in {":", ",", "["}
        /\ \A k \in (j + 1)..(LastQuoteAt(s) - 1) : s[k] \in TrimWs

\* s with everything from its last quote on replaced by null.
NullFromLastQuote(s) == SubSeq(s, 1, LastQuoteAt(s) - 1) \o <<"n", "u", "l", "l">>

\* C15: when the stripped text does not parse, its scan ends inside a
\* string and its last quote follows (blanks aside) a ':', ',' or '[', the
\* result is the text up to that quote, then null, then the closers of the
\* containers then open; '{"a": "hello' becomes exactly '{"a": null}'.
C15_TruncatedStringBecomesNull ==
    /\ ( /\ Extracted
         /\ ~isValidJson(Stripped)
         /\ EndsInsideString(Stripped)
         /\ QuoteOpensValue(Stripped) )
       => probe.result
             = NullFromLastQuote(Stripped)
               \o Repeat("]", NetOpen(NullFromLastQuote(Stripped), "[", "]"))
               \o Repeat("}", NetOpen(NullFromLastQuote(Stripped), "{", "}"))
    /\ (Extracted /\ probe.text = <<"{", "\"", "a", "\"", ":", " ", "\"", "h", "e", "l", "l", "o">>)
       => probe.result = <<"{", "\"", "a", "\"", ":", " ", "n", "u", "l", "l", "}">>

\* '["x","y' : the cut-off string is an array element after a comma.
C15_Witness ==
    /\ Extracted
    /\ probe.text = <<"[", "\"", "x", "\"", ",", "\"", "y">>
    /\ probe.result = <<"[", "\"", "x", "\"", ",", "n", "u", "l", "l", "]">>

\* The part of text behind the first occurrence of marker.
AfterFirst(text, marker) ==
    SubSeq(text, Min(Occurrences(text, marker)) + Len(marker), Len(text))

\* rest up to its first fence marker; all of it when it holds none.
UpToNextFence(rest) ==
    IF Occurrences(rest, Fence) = {} THEN rest
    ELSE SubSeq(rest, 1, Min(Occurrences(rest, Fence)) - 1)

\* The substring between the first json fence and the next fence; failing
\* that, between the first and the second fence; failing that, the text.
FencedPart(text) ==
    IF Occurrences(text, FenceJson) # {} THEN UpToNextFence(AfterFirst(text, FenceJson))
    ELSE IF Occurrences(text, Fence) # {} THEN UpToNextFence(AfterFirst(text, Fence))
    ELSE text

\* C16: the result is the fenced part of the text, trimmed, when that
\* parses, and its truncation repair when it does not; the json-fenced
\* '{"x":1}' comes back as exactly '{"x":1}'.
C16_FenceStripping ==
    /\ (Extracted /\ isValidJson(Trim(FencedPart(probe.text))))
       => probe.result = Trim(FencedPart(probe.text))
    /\ (Extracted /\ ~isValidJson(Trim(FencedPart(probe.text))))
       => probe.result = repairTruncatedJson(Trim(FencedPart(probe.text)))
    /\ (Extracted /\ probe.text = PayloadFenced)
       => probe.result = <<"{", "\"", "x", "\"", ":", "1", "}">>

\* Prose, a json fence, the payload, a closing fence, and prose again.
C16_Witness ==
    /\ Extracted
    /\ StartsWith(probe.text, <<"H", "e", "r", "e", ":", " ">> \o FenceJson)
    /\ EndsWith(probe.text, Fence \o <<"\n", "b", "y", "e">>)
    /\ probe.result = <<"{", "\"", "x", "\"", ":", "1", "}">>

----------------------------------------------------------------------------
(* VoiceRecognitionManager (form-populator.ts) and its transport, the      *)
(* platform's SpeechRecognition object.  Each operator below maps          *)
(* st = [voice, heard, ret] to its value after the method or handler; ret  *)
(* is the method's return value.  Callbacks are those main.ts registers.   *)

VEmit(st, e) == [st EXCEPT !.heard = Append(@, e)]

\* Events of heard.  An "op" marks a call of the manager or an event of the
\* platform, with isRecording and language as they were then.
OpEv(name, recording, language) ==
    [ev |-> "op", name |-> name, recording |-> recording, language |-> language]

NewEv(lang) == [ev |-> "new", lang |-> lang]

TransportStartEv(threw) == [ev |-> "transport.start", threw |-> threw]

TransportStopEv == [ev |-> "transport.stop"]

OnStartEv == [ev |-> "onStart"]

OnEndEv == [ev |-> "onEnd"]

OnErrorEv(message) == [ev |-> "onError", message |-> message]

OnResultEv(transcript) == [ev |-> "onResult", transcript |-> transcript]

\* The platform dispatches a SpeechRecognitionEvent to onresult.
DispatchEv(event) == [ev |-> "dispatch", event |-> event]

VReturnEv(value) == [ev |-> "return", value |-> value]

\* Variant: the 'not supported' message is not localized.
NotSupportedMessage_EnglishOnly(isChinese) == <<"Voice recognition not supported.">>

\* The 'not supported' message; the Chinese text is written in escapes.
NotSupportedMessage(isChinese) ==
    IF isChinese
    THEN <<"\\u6b64\\u700f\\u89bd\\u5668\\u4e0d\\u652f\\u63f4\\u8a9e\\u97f3\\u8fa8\\u8b58\\u3002">>
    ELSE <<"Voice recognition not supported.">>

\* The template literal of onerror: a localized prefix, then event.error.
VoiceErrorMessage(isChinese, error) ==
    <<IF isChinese THEN "\\u8a9e\\u97f3\\u932f\\u8aa4: " ELSE "Voice error: ", error>>

\* recognition.start(): throws InvalidStateError on a started object.
TransportStart(st) ==
    IF st.voice.started THEN VEmit(st, TransportStartEv(TRUE))
    ELSE [VEmit(st, TransportStartEv(FALSE)) EXCEPT !.voice.started = TRUE]

\* recognition.stop(): a started object will deliver its end event.
TransportStop(st) ==
    [VEmit(st, TransportStopEv) EXCEPT !.voice.endPending = @ \/ st.voice.started]

\* init() on a platform with the capability: the handle and its handlers.
InitRecognition(st) ==
    [VEmit(st, NewEv(st.voice.language))
        EXCEPT !.voice.recognition = TRUE, !.voice.lang = st.voice.language]

\* The try block of start(); threw is whether recognition.start() throws.
StartTry(st, threw) ==
    IF threw
    THEN [TransportStart([st EXCEPT !.voice.isRecording = TRUE])
             EXCEPT !.voice.isRecording = FALSE, !.ret = FALSE]
    ELSE [VEmit(TransportStart([st EXCEPT !.voice.isRecording = TRUE]), OnStartEv)
             EXCEPT !.ret = TRUE]

\* start() once the handle exists: retag it, then try.
StartWithHandle(st) ==
    StartTry([st EXCEPT !.voice.lang = st.voice.language], st.voice.started)

\* start()
VoiceStart(st) ==
    IF ~st.voice.recognition /\ ~st.voice.supported
    THEN [VEmit(st, OnErrorEv(NotSupportedMessage(st.voice.language = CHINESE)))
             EXCEPT !.ret = FALSE]
    ELSE IF ~st.voice.recognition THEN StartWithHandle(InitRecognition(st))
    ELSE StartWithHandle(st)

\* stop(); st already has isRecording = false.
StopTransport(st) ==
    VEmit(IF st.voice.recognition THEN TransportStop(st) ELSE st, OnEndEv)

\* Variant: the recording flag is left set while the transport is halted.
VoiceStop_KeepsRecording(st) == StopTransport(st)

VoiceStop(st) == StopTransport([st EXCEPT !.voice.isRecording = FALSE])

\* The return statement of toggle().
ReturnIsRecording(st) == [st EXCEPT !.ret = st.voice.isRecording]

\* Variant: toggle() returns the state it found on entry.
VoiceToggle_ReturnsEntryState(st) ==
    [(IF st.voice.isRecording THEN VoiceStop(st) ELSE VoiceStart(st))
        EXCEPT !.ret = st.voice.isRecording]

\* toggle()
VoiceToggle(st) ==
    ReturnIsRecording(IF st.voice.isRecording THEN VoiceStop(st) ELSE VoiceStart(st))

\* setLanguage(lang)
VoiceSetLanguage(st, lang) ==
    [st EXCEPT !.voice.language = lang,
               !.voice.lang = IF st.voice.recognition THEN lang ELSE @]

\* Variant: a platform end is taken for the end of the session.
OnEndHandler_EndsSession(st) ==
    IF st.voice.isRecording THEN VEmit([st EXCEPT !.voice.isRecording = FALSE], OnEndEv)
    ELSE st

\* Variant: every platform end restarts the transport and the session.
OnEndHandler_AlwaysRestarts(st) ==
    TransportStart([st EXCEPT !.voice.isRecording = TRUE])

\* recognition.onend
OnEndHandler(st) == IF st.voice.isRecording THEN TransportStart(st) ELSE st

\* recognition.onerror; st is the state after this.stop().
RaiseError(st, error) ==
    VEmit(st, OnErrorEv(VoiceErrorMessage(st.voice.language = CHINESE, error)))

\* Variant: the error is raised without stopping the session.
OnErrorHandler_NoStop(st, error) == RaiseError(st, error)

OnErrorHandler(st, error) == RaiseError(VoiceStop(st), error)

\* The loop of onresult from position i (1-based) on.
RECURSIVE FinalTranscript(_, _)
FinalTranscript(results, i) ==
    IF i > Len(results) THEN <<>>
    ELSE IF results[i].alternatives # <<>> /\ results[i].isFinal
         THEN <<results[i].alternatives[1], " ">> \o FinalTranscript(results, i + 1)
    ELSE FinalTranscript(results, i + 1)

\* finalTranscript is the concatenation the loop built.
DeliverResult(st, finalTranscript) ==
    IF finalTranscript # <<>> THEN VEmit(st, OnResultEv(finalTranscript)) ELSE st

\* Variant: the loop starts at the first entry, not at resultIndex.
OnResultHandler_FromFirst(st, event) ==
    DeliverResult(st, FinalTranscript(event.results, 1))

\* recognition.onresult
OnResultHandler(st, event) ==
    DeliverResult(st, FinalTranscript(event.results, event.resultIndex + 1))

----------------------------------------------------------------------------
(* The voice manager driven by its caller and by the platform.             *)

\* Largest number of calls and platform events in one behaviour.
MaxVoiceOps == 5

\* event.error of a SpeechRecognitionErrorEvent.
VoiceErrors == {"no-speech"}

SpeechResult(alternatives, isFinal) == [alternatives |-> alternatives, isFinal |-> isFinal]

\* Result events: one final entry; an earlier final entry in front of the
\* resume index, then an interim and a final one; one interim entry; an
\* earlier final entry in front of the resume index, then two final ones.
ResultEvents ==
    { [resultIndex |-> 0, results |-> <<SpeechResult(<<"fever">>, TRUE)>>],
      [resultIndex |-> 1,
       results |-> <<SpeechResult(<<"fever">>, TRUE), SpeechResult(<<"cou">>, FALSE),
                     SpeechResult(<<"cough", "cuff">>, TRUE)>>],
      [resultIndex |-> 0, results |-> <<SpeechResult(<<"fe">>, FALSE)>>],
      [resultIndex |-> 1,
       results |-> <<SpeechResult(<<"fever">>, TRUE), SpeechResult(<<"and">>, TRUE),
                     SpeechResult(<<"cough">>, TRUE)>>] }

VoiceOps == Len(SelectSeq(heard, LAMBDA e : e.ev = "op"))

\* The manager's state on entry to a call or a handler.
Entering(name) ==
    [voice |-> voice,
     heard |-> Append(heard, OpEv(name, voice.isRecording, voice.language)),
     ret |-> FALSE]

InitVoice ==
    /\ storedKey = ""
    /\ currentImage = NoImage
    /\ call = IdleCall
    /\ log = <<>>
    /\ probe = NoProbe
    /\ voice \in {NewVoice(s) : s \in BOOLEAN}
    /\ heard = <<>>

\* A caller invokes start().
CallStart ==
    /\ VoiceOps < MaxVoiceOps
    /\ \E st \in {VoiceStart(Entering("start"))} :
          voice' = st.voice /\ heard' = Append(st.heard, VReturnEv(st.ret))
    /\ UNCHANGED <<storedKey, currentImage, call, log, probe>>

\* A caller invokes stop().
CallStop ==
    /\ VoiceOps < MaxVoiceOps
    /\ \E st \in {VoiceStop(Entering("stop"))} : voice' = st.voice /\ heard' = st.heard
    /\ UNCHANGED <<storedKey, currentImage, call, log, probe>>

\* The voice button is clicked.
CallToggle ==
    /\ VoiceOps < MaxVoiceOps
    /\ \E st \in {VoiceToggle(Entering("toggle"))} :
          voice' = st.voice /\ heard' = Append(st.heard, VReturnEv(st.ret))
    /\ UNCHANGED <<storedKey, currentImage, call, log, probe>>

\* The language select changes.
CallSetLanguage ==
    /\ VoiceOps < MaxVoiceOps
    /\ \E lang \in {CHINESE, ENGLISH} :
          /\ lang # voice.language
          /\ \E st \in {VoiceSetLanguage(Entering("setLanguage"), lang)} :
                voice' = st.voice /\ heard' = st.heard
    /\ UNCHANGED <<storedKey, currentImage, call, log, probe>>

\* The transport ends, on its own or as asked, and delivers its end event.
PlatformEnd ==
    /\ VoiceOps < MaxVoiceOps
    /\ voice.started \/ voice.endPending
    /\ \E st \in {OnEndHandler([Entering("end") EXCEPT !.voice.started = FALSE,
                                                       !.voice.endPending = FALSE])} :
          voice' = st.voice /\ heard' = st.heard
    /\ UNCHANGED <<storedKey, currentImage, call, log, probe>>

\* The transport fails and delivers its error event; its end event is then
\* owed.  Platforms differ in whether start() is accepted again from the
\* error event on (cleared) or only from the end event on.
PlatformError ==
    /\ VoiceOps < MaxVoiceOps
    /\ voice.started
    /\ \E error \in VoiceErrors, cleared \in BOOLEAN :
          \E st \in {OnErrorHandler([Entering("error") EXCEPT !.voice.started = ~cleared,
                                                             !.voice.endPending = TRUE],
                                    error)} :
              voice' = st.voice /\ heard' = st.heard
    /\ UNCHANGED <<storedKey, currentImage, call, log, probe>>

\* The transport delivers a result event.
PlatformResult ==
    /\ VoiceOps < MaxVoiceOps
    /\ voice.started
    /\ \E event \in ResultEvents :
          \E st \in {OnResultHandler(VEmit(Entering("result"), DispatchEv(event)), event)} :
              voice' = st.voice /\ heard' = st.heard
    /\ UNCHANGED <<storedKey, currentImage, call, log, probe>>

NextVoice ==
    \/ CallStart
    \/ CallStop
    \/ CallToggle
    \/ CallSetLanguage
    \/ PlatformEnd
    \/ PlatformError
    \/ PlatformResult

SpecVoice == InitVoice /\ [][NextVoice]_vars

----------------------------------------------------------------------------
(* Reading heard.                                                          *)

IsOp(e, name) == e.ev = "op" /\ e.name = name

\* Position of the first op behind position k (Len(heard) + 1 if none).
NextOp(k) ==
    IF \E j \in (k + 1)..Len(heard) : heard[j].ev = "op"
    THEN Min({j \in (k + 1)..Len(heard) : heard[j].ev = "op"})
    ELSE Len(heard) + 1

\* What the call or handler entered at position k did.
Effects(k) == SubSeq(heard, k + 1, NextOp(k) - 1)

\* isRecording once the call or handler entered at position k is over.
RecordingAfter(k) ==
    IF NextOp(k) <= Len(heard) THEN heard[NextOp(k)].recording ELSE voice.isRecording

\* Position of the last op in front of position k (0 if none).
PrevOp(k) ==
    IF \E j \in 1..(k - 1) : heard[j].ev = "op"
    THEN Max({j \in 1..(k - 1) : heard[j].ev = "op"})
    ELSE 0

\* C17: a platform end event delivered while isRecording is true makes the
\* manager call the transport's start() again and nothing else: onEnd is
\* not invoked and isRecording stays true.
C17_AutoRestart ==
    \A k \in 1..Len(heard) :
        (IsOp(heard[k], "end") /\ heard[k].recording)
        => /\ Effects(k) = <<TransportStartEv(FALSE)>>
           /\ RecordingAfter(k)

\* start(), a result, a platform end, and a result of the restarted stream.
C17_Witness ==
    /\ Len(heard) >= 9
    /\ IsOp(heard[1], "start")
    /\ IsOp(heard[6], "result")
    /\ IsOp(heard[9], "end")
    /\ heard[9].recording
    /\ IsOp(heard[Len(heard) - 2], "result")
    /\ heard[Len(heard)].ev = "onResult"

\* Position of the last onStart in front of position k (0 if none).
SessionStart(k) ==
    IF \E j \in 1..(k - 1) : heard[j] = OnStartEv
    THEN Max({j \in 1..(k - 1) : heard[j] = OnStartEv})
    ELSE 0

\* C18: when stop() is called on a recording session and the platform's end
\* event comes next, onEnd has been invoked exactly once since the session
\* started and the transport's start() has not been called again.
C18_ExplicitStop ==
    \A k \in 1..Len(heard) :
        ( /\ IsOp(heard[k], "end")
          /\ PrevOp(k) > 0
          /\ IsOp(heard[PrevOp(k)], "stop")
          /\ heard[PrevOp(k)].recording )
        => /\ Effects(k) = <<>>
           /\ \A j \in PrevOp(k)..k : heard[j].ev # "transport.start"
           /\ Cardinality({j \in SessionStart(PrevOp(k))..k : heard[j] = OnEndEv}) = 1
           /\ ~RecordingAfter(k)

\* start(), stop(), then the platform's end event.
C18_Witness ==
    /\ Len(heard) >= 9
    /\ IsOp(heard[1], "start")
    /\ heard[3] = TransportStartEv(FALSE)
    /\ IsOp(heard[6], "stop")
    /\ heard[7] = TransportStopEv
    /\ heard[8] = OnEndEv
    /\ IsOp(heard[9], "end")

\* No start() or toggle() is called between positions k and j.
NoStartBetween(k, j) ==
    \A i \in (k + 1)..(j - 1) : ~IsOp(heard[i], "start") /\ ~IsOp(heard[i], "toggle")

\* C19: on a platform error event the manager asks the transport to halt
\* and leaves isRecording false before it invokes onError, once, with the
\* error prefixed in Chinese exactly when the language is zh-TW at that
\* moment; the end event that follows, with no start() or toggle() in
\* between, restarts nothing.
C19_PlatformError ==
    /\ \A k \in 1..Len(heard) :
          IsOp(heard[k], "error")
          => /\ Len(Effects(k)) = 3
             /\ Effects(k)[1] = TransportStopEv
             /\ Effects(k)[2] = OnEndEv
             /\ Effects(k)[3].ev = "onError"
             /\ Effects(k)[3].message[2] \in VoiceErrors
             /\ (Effects(k)[3].message[1] = "\\u8a9e\\u97f3\\u932f\\u8aa4: ")
                   <=> (heard[k].language = "zh-TW")
             /\ (Effects(k)[3].message[1] = "Voice error: ")
                   <=> (heard[k].language # "zh-TW")
             /\ ~RecordingAfter(k)
    /\ \A k \in 1..Len(heard) : \A j \in (k + 1)..Len(heard) :
          (IsOp(heard[k], "error") /\ IsOp(heard[j], "end") /\ NoStartBetween(k, j))
          => /\ Effects(j) = <<>>
             /\ ~RecordingAfter(j)

\* start(), the language switched to English, an error, then the end.
C19_Witness ==
    /\ Len(heard) >= 12
    /\ IsOp(heard[1], "start")
    /\ IsOp(heard[6], "setLanguage")
    /\ IsOp(heard[7], "error")
    /\ heard[7].recording
    /\ heard[10] = OnErrorEv(<<"Voice error: ", "no-speech">>)
    /\ IsOp(heard[11], "end")
    /\ IsOp(heard[12], "setLanguage")

\* C20: start() called while isRecording is true leaves isRecording true
\* and constructs no second transport handle.
C20_ReentrantStart ==
    \A k \in 1..Len(heard) :
        (IsOp(heard[k], "start") /\ heard[k].recording)
        => /\ RecordingAfter(k)
           /\ \A j \in 1..Len(Effects(k)) : Effects(k)[j].ev # "new"

\* The last thing the call entered at position k did.
LastEffect(k) == heard[NextOp(k) - 1]

\* An effect of the call entered at position k has the kind ev.
Did(k, ev) == \E j \in 1..Len(Effects(k)) : Effects(k)[j].ev = ev

\* C21: toggle() returns isRecording as it is after the call.  Called while
\* recording it performs stop() and returns false; called while idle it
\* performs start() and returns true exactly when the transport accepted
\* the start, and false, with isRecording still false, when the platform
\* has no speech recognition or the transport's start() threw.
C21_ToggleReturnsState ==
    \A k \in 1..Len(heard) :
        IsOp(heard[k], "toggle")
        => /\ LastEffect(k) = VReturnEv(RecordingAfter(k))
           /\ heard[k].recording
                 => Effects(k) = <<TransportStopEv, OnEndEv, VReturnEv(FALSE)>>
           /\ ~heard[k].recording
                 => /\ ~Did(k, "transport.stop")
                    /\ ~Did(k, "onEnd")
                    /\ RecordingAfter(k)
                          <=> \E j \in 1..Len(Effects(k)) :
                                 Effects(k)[j] = TransportStartEv(FALSE)
                    /\ RecordingAfter(k) <=> Did(k, "onStart")
                    /\ (~voice.supported \/ TransportStartEv(TRUE) \in
                            {Effects(k)[j] : j \in 1..Len(Effects(k))})
                          => LastEffect(k) = VReturnEv(FALSE)

\* A click that starts, a click that stops, and a click whose start the
\* transport refuses because its end event is still owed.
C21_Witness ==
    /\ Len(heard) = 13
    /\ IsOp(heard[1], "toggle")
    /\ heard[5] = VReturnEv(TRUE)
    /\ IsOp(heard[6], "toggle")
    /\ heard[9] = VReturnEv(FALSE)
    /\ IsOp(heard[10], "toggle")
    /\ heard[11] = TransportStartEv(TRUE)
    /\ heard[12] = VReturnEv(FALSE)
    /\ IsOp(heard[13], "end")

\* C22: on a platform without speech recognition every start(), the first
\* and any later one, invokes onError once with the 'not supported' message
\* in the configured language and returns false, and does nothing else: no
\* transport handle is constructed, onStart is not invoked and isRecording
\* stays false.
C22_UnsupportedPlatform ==
    ~voice.supported
    => /\ \A k \in 1..Len(heard) :
             IsOp(heard[k], "start")
             => /\ Effects(k)
                      = <<OnErrorEv(IF heard[k].language = "zh-TW"
                                    THEN <<"\\u6b64\\u700f\\u89bd\\u5668\\u4e0d\\u652f\\u63f4\\u8a9e\\u97f3\\u8fa8\\u8b58\\u3002">>
                                    ELSE <<"Voice recognition not supported.">>),
                          VReturnEv(FALSE)>>
                /\ ~RecordingAfter(k)
       /\ \A j \in 1..Len(heard) : heard[j].ev \notin {"new", "onStart", "transport.start"}
       /\ ~voice.recognition
       /\ ~voice.isRecording

\* start(), the language switched to English, and start() twice more.
C22_Witness ==
    /\ ~voice.supported
    /\ Len(heard) = 10
    /\ IsOp(heard[1], "start")
    /\ IsOp(heard[4], "setLanguage")
    /\ IsOp(heard[5], "start")
    /\ heard[6] = OnErrorEv(<<"Voice recognition not supported.">>)
    /\ IsOp(heard[8], "start")
    /\ heard[10] = VReturnEv(FALSE)

----------------------------------------------------------------------------
(* Payload selection applied to answers of up to MaxParts parts.           *)

\* Largest number of parts in a candidate.
MaxParts == 3

\* Texts a part can carry.
PartTexts ==
    {
      \* no text
      <<>>,
      \* a blank
      <<" ">>,
      \* prose
      <<"S", "o", "r", "r", "y">>,
      \* an object
      <<"{", "\"", "x", "\"", ":", "1", "}">>,
      \* an object behind a blank
      <<" ", "{", "\"", "y", "\"", ":", "2", "}">>,
      \* an object inside prose
      <<"s", "e", "e", " ", "{", "\"", "z", "\"", ":", "3", "}">>,
      \* a json-fenced array
      <<BT, BT, BT, "j", "s", "o", "n", "\n", "[", "1", "]", "\n", BT, BT, BT>>,
      \* prose with an opening brace
      <<"x", "{">>
    }

\* Sequences of at most n part texts.
RECURSIVE PartLists(_)
PartLists(n) ==
    IF n = 0 THEN {<<>>}
    ELSE PartLists(n - 1)
         \cup {Append(l, t) : l \in {x \in PartLists(n - 1) : Len(x) = n - 1}, t \in PartTexts}

\* Answers: no candidate; one candidate; a second candidate behind it.
SelectBodies ==
    {[candidates |-> <<>>]}
    \cup {[candidates |-> <<Candidate(l, "STOP")>>] : l \in PartLists(MaxParts)}
    \cup {[candidates |-> <<Candidate(l, "STOP"), Candidate(<<PayloadChief>>, "STOP")>>] :
             l \in PartLists(MaxParts)}

InitSelect ==
    /\ storedKey = ""
    /\ currentImage = NoImage
    /\ call = IdleCall
    /\ log = <<>>
    /\ voice = NewVoice(TRUE)
    /\ heard = <<>>
    /\ probe \in {[fn |-> "SelectText", data |-> d, applied |-> FALSE,
                   text |-> <<>>, error |-> NoError] : d \in SelectBodies}

\* The first attempt of an invocation reads the answer: the text it selects
\* and the error, if any, the attempt ends with.
Select ==
    /\ probe.fn = "SelectText"
    /\ ~probe.applied
    /\ \E st \in {HandleData([call |-> [IdleCall EXCEPT !.pc = "fetch"], log |-> <<>>],
                              probe.data, TRUE, 0)} :
          probe' = [probe EXCEPT !.applied = TRUE,
                                 !.text = SelectText(probe.data),
                                 !.error = st.call.lastError]
    /\ UNCHANGED <<storedKey, currentImage, call, log, voice, heard>>

NextSelect == Select

SpecSelect == InitSelect /\ [][NextSelect]_vars

Selected == probe.fn = "SelectText" /\ probe.applied

\* The texts of the first candidate's parts (none without a candidate).
FirstParts ==
    IF probe.data.candidates = <<>> THEN <<>>
    ELSE [k \in 1..Len(probe.data.candidates[1].parts) |->
             probe.data.candidates[1].parts[k].text]

\* The first non-blank character of t is '{' or begins the json fence.
LooksLikeJson(t) ==
    \E i \in 1..Len(t) :
        /\ \A j \in 1..(i - 1) : t[j] \in TrimWs
        /\ t[i] \notin TrimWs
        /\ \/ t[i] = "{"
           \/ i + 6 <= Len(t) /\ SubSeq(t, i, i + 6) = <<BT, BT, BT, "j", "s", "o", "n">>

HasBothBraces(t) == (\E i \in 1..Len(t) : t[i] = "{") /\ (\E i \in 1..Len(t) : t[i] = "}")

NonBlank(t) == \E i \in 1..Len(t) : t[i] \notin TrimWs

EmptyResponseError ==
    BuiltinError("Error",
        "Empty response from AI. The model returned no text content. Try using Gemini 2.0 Flash.")

\* C23: the selected text is the first part of the first candidate that
\* looks like JSON; failing any such part, the first part with both
\* braces; failing any such part, the last non-blank part; failing that,
\* nothing is selected and the attempt ends with the empty-response error.
C23_PayloadSelection ==
    Selected
    => \/ \E k \in 1..Len(FirstParts) :
             /\ LooksLikeJson(FirstParts[k])
             /\ \A j \in 1..(k - 1) : ~LooksLikeJson(FirstParts[j])
             /\ probe.text = FirstParts[k]
             /\ probe.error # EmptyResponseError
       \/ /\ \A j \in 1..Len(FirstParts) : ~LooksLikeJson(FirstParts[j])
          /\ \E k \in 1..Len(FirstParts) :
                /\ HasBothBraces(FirstParts[k])
                /\ \A j \in 1..(k - 1) : ~HasBothBraces(FirstParts[j])
                /\ probe.text = FirstParts[k]
                /\ probe.error # EmptyResponseError
       \/ /\ \A j \in 1..Len(FirstParts) :
                ~LooksLikeJson(FirstParts[j]) /\ ~HasBothBraces(FirstParts[j])
          /\ \E k \in 1..Len(FirstParts) :
                /\ NonBlank(FirstParts[k])
                /\ \A j \in (k + 1)..Len(FirstParts) : ~NonBlank(FirstParts[j])
                /\ probe.text = FirstParts[k]
                /\ probe.error # EmptyResponseError
       \/ /\ \A j \in 1..Len(FirstParts) : ~NonBlank(FirstParts[j])
          /\ probe.text = <<>>
          /\ probe.error = EmptyResponseError

\* Prose, then prose with a brace, then a blank: the fallback takes the
\* second part, the last one that is not blank.
C23_Witness ==
    /\ Selected
    /\ Len(FirstParts) = 3
    /\ FirstParts[1] = <<"S", "o", "r", "r", "y">>
    /\ FirstParts[2] = <<"x", "{">>
    /\ FirstParts[3] = <<" ">>
    /\ probe.text = <<"x", "{">>

----------------------------------------------------------------------------
(* Transcripts handed to onResult.                                         *)

\* The event dispatched to the handler entered at position k.
Dispatched(k) == heard[k + 1].event

\* The transcripts onResult received from the handler entered at position k.
Transcripts(k) ==
    SelectSeq(Effects(k), LAMBDA e : e.ev = "onResult")

\* Positions (1-based) of the entries of event at index >= resultIndex that
\* are flagged final.
FinalEntries(event) ==
    {i \in (event.resultIndex + 1)..Len(event.results) : event.results[i].isFinal}

\* The n-th smallest member of the set S of numbers.
Nth(S, n) == CHOOSE i \in S : Cardinality({x \in S : x <= i}) = n

\* t is, in order, the transcript of each final entry followed by a space.
IsFinalConcatenation(t, event) ==
    /\ Len(t) = 2 * Cardinality(FinalEntries(event))
    /\ \A n \in 1..Cardinality(FinalEntries(event)) :
          /\ t[2 * n - 1] = event.results[Nth(FinalEntries(event), n)].alternatives[1]
          /\ t[2 * n] = " "

\* C24: for every result event onResult is invoked at most once, with the
\* in-order concatenation of the transcripts of the final entries at index
\* >= resultIndex, each followed by one space, and it is not invoked when
\* no such entry is final.
C24_FinalOnlyTranscripts ==
    \A k \in 1..Len(heard) :
        IsOp(heard[k], "result")
        => /\ Len(Transcripts(k)) <= 1
           /\ (Len(Transcripts(k)) = 1) <=> (FinalEntries(Dispatched(k)) # {})
           /\ \A j \in 1..Len(Transcripts(k)) :
                 IsFinalConcatenation(Transcripts(k)[j].transcript, Dispatched(k))

\* A result event with a final entry in front of resultIndex and two final
\* entries behind it, and a result event with an interim entry only.
C24_Witness ==
    \E k, j \in 1..Len(heard) :
        /\ IsOp(heard[k], "result")
        /\ Dispatched(k).resultIndex = 1
        /\ Transcripts(k) = <<OnResultEv(<<"and", " ", "cough", " ">>)>>
        /\ IsOp(heard[j], "result")
        /\ Dispatched(j).results = <<SpeechResult(<<"fe">>, FALSE)>>
        /\ Transcripts(j) = <<>>

----------------------------------------------------------------------------
(* The requests of one invocation.                                         *)

\* Positions of the requests in the log.
Fetches == {k \in 1..Len(log) : log[k].ev = "fetch"}

\* The text the prompt is built around: the input, or the stand-in
\* sentence when the input is blank.
NotesOf(inputText) == IF NonBlank(inputText) THEN inputText ELSE ImageStandIn

\* C25: every request has at least one part; the first is the prompt built
\* from the template around the input text (the stand-in sentence when it
\* is blank); an inline-image part follows exactly when an image was held
\* when the invocation began; and every attempt sends the same body and
\* credential, whatever is stored by then.
C25_RequestEnvelope ==
    \A k \in Fetches :
        /\ Len(log[k].parts) >= 1
        /\ log[k].parts[1] = [text |-> PromptFor(NotesOf(log[1].inputText))]
        /\ Len(log[k].parts) = (IF log[1].image # NoImage THEN 2 ELSE 1)
        /\ log[1].image # NoImage
           => log[k].parts[2] = [inlineData |-> [mimeType |-> log[1].image.mimeType,
                                                data |-> log[1].image.base64]]
        /\ log[k].key = log[1].key
        /\ log[k].generationConfig = GenerationConfig
        /\ \A j \in Fetches : log[j] = log[k]

\* A blank input with an image: two requests, the second sent after the
\* stored image and credential were cleared.
C25_Witness ==
    /\ Cardinality(Fetches) >= 2
    /\ log[1].inputText = <<" ">>
    /\ log[1].image # NoImage
    /\ log[1].key # ""
    /\ log[Len(log)].ev = "fetch"
    /\ storedKey = ""
    /\ currentImage = NoImage

----------------------------------------------------------------------------
(* Two invocations of parseWithAI in flight at once.  attempt, lastError,  *)
(* apiKey, parts and body are locals of the call; the stored credential    *)
(* and image are read once, when the call begins.                          *)

\* The invocations.
Runs == {1, 2}

\* What a fetch() comes back with here: a payload, a retryable and a final
\* failure.
OverlapOutcomes ==
    {o \in TransportOutcomes :
        \/ o.t = "ok" /\ o.data = [candidates |-> <<Candidate(<<PayloadChief>>, "STOP")>>]
        \/ o.t = "status" /\ o.status \in {401, 503} /\ o.message = ""}

NotStarted == [call |-> IdleCall, log |-> <<>>]

\* What the host hands to invocation i: its call, a settled fetch, a timer.
Stimulus(kind, inputText, outcome, onLine) ==
    [kind |-> kind, inputText |-> inputText, outcome |-> outcome, onLine |-> onLine]

NoOutcome == [t |-> "none", status |-> 0, message |-> "", data |-> [candidates |-> <<>>]]

\* Variant: attempt and lastError are variables of the module, shared by
\* the invocations in flight.
Commit_SharedCounter(runs, i, st) ==
    [j \in Runs |->
        IF j = i THEN [call |-> st.call, log |-> st.log]
        ELSE [runs[j] EXCEPT !.call.attempt = st.call.attempt,
                             !.call.lastError = st.call.lastError]]

\* The locals of invocation i after a run of its code; the other
\* invocation's locals are out of its reach.
Commit(runs, i, st) == [runs EXCEPT ![i] = [call |-> st.call, log |-> st.log]]

InitOverlap ==
    /\ storedKey \in ApiKeys
    /\ currentImage \in Images \cup {NoImage}
    /\ call = IdleCall
    /\ log = <<>>
    /\ voice = NewVoice(TRUE)
    /\ heard = <<>>
    /\ probe = [fn |-> "Overlap", runs |-> [i \in Runs |-> NotStarted],
                stim |-> [i \in Runs |-> <<>>]]

\* A caller invokes parseWithAI while the other invocation may be running.
OverlapInvoke ==
    /\ probe.fn = "Overlap"
    /\ \E i \in Runs, inputText \in InputTexts, onLine \in BOOLEAN :
          /\ probe.runs[i] = NotStarted
          /\ \E st \in {Start(inputText, storedKey, currentImage, onLine, 0)} :
                probe' = [probe EXCEPT
                             !.runs = Commit(@, i, st),
                             !.stim[i] = Append(@, Stimulus("call", inputText, NoOutcome,
                                                            onLine))]
    /\ UNCHANGED <<storedKey, currentImage, call, log, voice, heard>>

\* The transport settles the fetch() of one invocation.
OverlapSettles ==
    /\ probe.fn = "Overlap"
    /\ \E i \in Runs, outcome \in OverlapOutcomes :
          /\ probe.runs[i].call.pc = "fetch"
          /\ \E st \in {Settle(probe.runs[i], outcome, TRUE, 0)} :
                probe' = [probe EXCEPT
                             !.runs = Commit(@, i, st),
                             !.stim[i] = Append(@, Stimulus("settle", <<>>, outcome, TRUE))]
    /\ UNCHANGED <<storedKey, currentImage, call, log, voice, heard>>

\* The backoff timer of one invocation fires.
OverlapSleepEnds ==
    /\ probe.fn = "Overlap"
    /\ \E i \in Runs, onLine \in BOOLEAN :
          /\ probe.runs[i].call.pc = "sleep"
          /\ \E st \in {Resume(probe.runs[i], onLine, 0)} :
                probe' = [probe EXCEPT
                             !.runs = Commit(@, i, st),
                             !.stim[i] = Append(@, Stimulus("wake", <<>>, NoOutcome, onLine))]
    /\ UNCHANGED <<storedKey, currentImage, call, log, voice, heard>>

NextOverlap ==
    \/ OverlapInvoke
    \/ OverlapSettles
    \/ OverlapSleepEnds

SpecOverlap == InitOverlap /\ [][NextOverlap]_vars

\* The stimuli of invocation i, in order.
StimuliOf(i) == probe.stim[i]

\* The invocation that receives the first n stimuli of h and runs alone.
RECURSIVE Alone(_, _)
Alone(h, n) ==
    IF n = 0 THEN NotStarted
    ELSE IF h[n].kind = "call"
         THEN Start(h[n].inputText, storedKey, currentImage, h[n].onLine, 0)
    ELSE IF h[n].kind = "settle"
         THEN Settle(Alone(h, n - 1), h[n].outcome, h[n].onLine, 0)
    ELSE Resume(Alone(h, n - 1), h[n].onLine, 0)

CountIn(events, kind) == Len(SelectSeq(events, LAMBDA e : e.ev = kind))

----------------------------------------------------------------------------
(* Repair of documents cut off inside strings and containers.              *)

\* Most containers left open by a cut.
MaxOpen == 4

\* Closing brackets and braces, in any order, at most n of them.
RECURSIVE Closers(_)
Closers(n) ==
    IF n = 0 THEN {<<>>}
    ELSE Closers(n - 1)
         \cup {Append(c, x) : c \in {y \in Closers(n - 1) : Len(y) = n - 1}, x \in {"]", "}"}}

\* t is a valid document cut off where only brackets, braces and at most
\* one string literal remain open: closing the string, if any, and then
\* the containers gives a document that parses.
CutOfValid(t) ==
    /\ ~isValidJson(t)
    /\ \E q \in {<<>>, <<"\"">>}, c \in Closers(MaxOpen) : isValidJson(t \o q \o c)

----------------------------------------------------------------------------
(* Termination.  fetch() settles and setTimeout fires: the transport and   *)
(* the timer are the host's, and each await of the loop is on one of them. *)

SpecLive == Init /\ [][Next]_vars /\ WF_vars(FetchSettles) /\ WF_vars(SleepEnds)

\* The invocation awaits the transport or the backoff timer.
InFlight == call.pc \in {"fetch", "sleep"}

\* The promise of the invocation has resolved.
Returned == call.pc = "done"

\* At most MAX_ATTEMPTS transport calls and MAX_ATTEMPTS - 1 sleeps, and no
\* sleep in the final attempt.
BoundedWork ==
    /\ CountIn(log, "fetch") <= MAX_ATTEMPTS
    /\ CountIn(log, "sleep") <= MAX_ATTEMPTS - 1
    /\ \A k \in 1..Len(log) : log[k].ev = "sleep" => AttemptAt(k) < MAX_ATTEMPTS - 1

\* C28: when every transport call and every backoff sleep completes, every
\* invocation returns; it makes at most MAX_ATTEMPTS transport calls and
\* MAX_ATTEMPTS - 1 backoff sleeps and never sleeps after its final attempt.
C28_BoundedTermination == [](BoundedWork) /\ (InFlight ~> Returned)

\* An invocation that used all its attempts: MAX_ATTEMPTS transport calls
\* with MAX_ATTEMPTS - 1 sleeps between them, then the return.
C28_Witness ==
    /\ Returned
    /\ CountIn(log, "fetch") = MAX_ATTEMPTS
    /\ CountIn(log, "sleep") = MAX_ATTEMPTS - 1
    /\ log[Len(log)].ev = "return"
    /\ log[Len(log) - 1].ev = "onError"

----------------------------------------------------------------------------
(* The outcome of one invocation.                                          *)

\* Positions of the status notifications of a kind.
StatusesOf(kind) == {k \in 1..Len(log) : log[k].ev = "status" /\ log[k].kind = kind}

\* Positions of the notifications: onStatus, onSuccess and onError calls.
Notifications == {k \in 1..Len(log) : log[k].ev \in {"status", "onSuccess", "onError"}}

\* C29: in one invocation onSuccess and onError are each invoked at most
\* once and never both; a 'success' and an 'error' status are never both
\* emitted; nothing but the matching callback is notified after a
\* 'success' or 'error' status, and an invocation that has returned ends
\* its notifications with one.
C29_ExclusiveOutcome ==
    /\ CountIn(log, "onSuccess") + CountIn(log, "onError") <= 1
    /\ StatusesOf("success") = {} \/ StatusesOf("error") = {}
    /\ CountIn(log, "onSuccess") = 1 => StatusesOf("error") = {}
    /\ CountIn(log, "onError") = 1 => StatusesOf("success") = {}
    /\ \A k \in StatusesOf("success") :
          \A j \in Notifications : j > k => (j = k + 1 /\ log[j].ev = "onSuccess")
    /\ \A k \in StatusesOf("error") :
          \A j \in Notifications : j > k => (j = k + 1 /\ log[j].ev = "onError")
    /\ Returned => \E k \in StatusesOf("success") \cup StatusesOf("error") :
                      \A j \in Notifications : log[j].ev = "status" => j <= k

\* An invocation that failed once, slept, and succeeded on its second
\* attempt: 'loading' notifications, then 'success' and onSuccess.
C29_Witness ==
    /\ Returned
    /\ CountIn(log, "sleep") = 1
    /\ CountIn(log, "onSuccess") = 1
    /\ log[Len(log) - 2].ev = "status"
    /\ log[Len(log) - 2].kind = "success"
    /\ log[Len(log) - 1].ev = "onSuccess"

----------------------------------------------------------------------------
(* The idle manager.                                                       *)

PlatformEvents == {"end", "error", "result"}

\* The call or handler entered at position k called the transport's start().
CalledTransportStart(k) == Did(k, "transport.start")

\* C30: a platform event (end, error or result) delivered while
\* isRecording is false leaves it false and does not call the transport's
\* start(); whenever isRecording goes from false to true, or the
\* transport's start() is called while it is false, the manager is inside
\* a start() or toggle() call.
C30_IdleStable ==
    \A k \in 1..Len(heard) :
        (heard[k].ev = "op" /\ ~heard[k].recording)
        => /\ heard[k].name \in PlatformEvents
              => (~RecordingAfter(k) /\ ~CalledTransportStart(k) /\ ~Did(k, "onStart"))
           /\ (RecordingAfter(k) \/ CalledTransportStart(k))
              => heard[k].name \in {"start", "toggle"}

\* A session stopped by stop(), then a late result, an error and the end
\* event, each delivered to the idle manager.
C30_Witness ==
    /\ ~voice.isRecording
    /\ \E s, r, e, n \in 1..Len(heard) :
          /\ s < r /\ r < e /\ e < n
          /\ IsOp(heard[s], "stop") /\ heard[s].recording
          /\ IsOp(heard[r], "result") /\ ~heard[r].recording
          /\ IsOp(heard[e], "error") /\ ~heard[e].recording
          /\ IsOp(heard[n], "end") /\ ~heard[n].recording

====
